---- MODULE Spec2Model ----
(***************************************************************************)
(* Model of the primary of smr-hydrangea: the per-header VotesAggregator   *)
(* (primary/src/aggregators.rs) and the Core dispatch loop                 *)
(* (primary/src/core.rs).                                                  *)
(***************************************************************************)
EXTENDS Bags, FiniteSets, Integers, Sequences, TLC

VARIABLES
    committee,   \* the immutable Committee snapshot: stake of each authority, validity threshold
    agg,         \* a stand-alone VotesAggregator (one header)
    aggPre,      \* history: the aggregator as it was before the last append call
    aggCalls,    \* history: the append calls made so far, <<[vote, tag, cert]>>
    \* ---- Core (core.rs:28-66) ----
    alive,                        \* FALSE once the Core task has panicked
    consensus_round,              \* Arc<AtomicU64> written by the consensus layer
    gc_round,                     \* the last garbage collected round
    last_voted,                   \* HashMap<Round, HashSet<PublicKey>>
    cancel_handlers,              \* HashMap<Round, Vec<CancelHandler>>
    processing_headers,           \* HashMap<Digest, Header>
    processing_vote_aggregators,  \* HashMap<Digest, VotesAggregator>
    store,                        \* the persistent key-value store
    tx_consensus,                 \* certificates waiting in the channel to the consensus layer (a bag)
    sink_closed,                  \* TRUE once the consensus layer dropped its Receiver
    blocked,                      \* the certificate whose send Core awaits (NoCert: none)
    awaiting,                     \* the await inside which the handler is: the line of core.rs
                                  \* (0: none) and the locals the handler goes on with
    pool,                         \* certificates handed to the verification thread pool (a bag)
    rx_verified,                  \* VerifiedCertificate messages waiting in rx_primaries (a bag)
    \* ---- history ----
    votes_created,                \* history: every vote made by Vote::new, as [id, round, origin]
    cert_broadcasts,              \* history: header id -> number of certificate broadcasts
    events,                       \* history: number of events received by the dispatch loop
    last,                         \* history: the last event [kind, round, result]
    trace,                        \* history: the effects of the last event, in order
    delivered,                    \* history: the votes of peers received for a header in flight
    \* ---- Synchronizer (synchronizer.rs:12-19); its store is `store` ----
    tx_header_waiter,             \* the commands waiting in the channel to the HeaderWaiter
    waiter_closed,                \* TRUE once the HeaderWaiter has dropped its receiver
    sync_call,                    \* the call of missing_payload in progress: position, header,
                                  \* pairs still to read, pairs found missing
    sync_last,                    \* history: the last call of missing_payload [header, result]
    sync_calls,                   \* history: number of calls of missing_payload
    \* ---- Proposer (proposer.rs:16-35) ----
    pc,                           \* where the Proposer task is: "check" (line 109), "make_header"
                                  \* (line 113), "select" (line 121), or "dead" once it has panicked
    txns,                         \* Vec<Transaction> waiting for the next header
    payload_size,                 \* size in bytes of txns
    timer_elapsed,                \* timer.is_elapsed()
    pending_header,               \* the header make_header is making and sending, NoHeader if none
    tx_core,                      \* the headers waiting in the channel to the Core
    core_closed,                  \* TRUE once the Core has dropped its receiver
    emitted,                      \* history: the headers sent to the Core, in order
    proposer_round,               \* Proposer::round
    batches                       \* history: the batches received from the workers, in order

aggVars == <<agg, aggPre, aggCalls>>

syncVars == <<tx_header_waiter, waiter_closed, sync_call, sync_last, sync_calls>>

propVars ==
    <<pc, txns, payload_size, timer_elapsed, pending_header, tx_core, core_closed, emitted,
      proposer_round, batches>>

coreVars == <<alive, consensus_round, gc_round, last_voted, cancel_handlers,
              processing_headers, processing_vote_aggregators, store, tx_consensus,
              sink_closed, blocked, awaiting,
              pool, rx_verified, votes_created, cert_broadcasts, events, last, trace,
              delivered>>

----------------------------------------------------------------------------
(* Bounds of the model. *)

\* Largest stake of one authority.
MaxStake == 2
\* Number of append calls made on the stand-alone aggregator.
MaxAppends == 3
\* Number of events the dispatch loop of Core receives.
MaxEvents == 2
\* Largest value the consensus layer writes to consensus_round.
MaxConsensusRound == 3
\* Largest round of a header, vote or certificate.
MaxRound == 1
\* Capacity of the channel to the consensus layer.
SinkCapacity == 1
\* Number of calls of Synchronizer::missing_payload.
MaxSyncCalls == 2
\* Capacity of the channel to the HeaderWaiter.
WaiterCapacity == 1
\* Number of batches the Proposer receives from the workers.
MaxBatches == 2
\* Capacity of the channel from the Proposer to the Core.
CoreCapacity == 1
\* Largest number of transactions in one batch.
MaxBatchLen == 2
\* Number of votes of peers delivered to Core for its headers in flight.
MaxDeliveries == 3

----------------------------------------------------------------------------
(* Committee (config crate, not part of the sources at hand): authorities, *)
(* stake, validity threshold and the ordering of the BLS key shares.       *)

Authorities == {"a1", "a2", "a3"}

\* The BLS public key share of each authority; the order of the keys is not
\* the order of the authority names.
BlsKeyOf == [a \in Authorities |->
                CASE a = "a1" -> 30 [] a = "a2" -> 10 [] OTHER -> 20]

RECURSIVE SumStake(_, _)
SumStake(c, S) ==
    IF S = {} THEN 0
    ELSE LET a == CHOOSE x \in S : TRUE
         IN c.stake[a] + SumStake(c, S \ {a})

\* Every committee of the model: any stake in 1..MaxStake per authority and any
\* threshold between 1 and the total stake.
Committees ==
    UNION { { [stake |-> s, threshold |-> t] : t \in 1..SumStake([stake |-> s], Authorities) }
            : s \in [Authorities -> 1..MaxStake] }

stake(c, a) == c.stake[a]

validity_threshold(c) == c.threshold

get_bls_public_g2(c, a) == BlsKeyOf[a]

\* committee.sorted_keys: the key shares in increasing order.
RECURSIVE SortedSeq(_)
SortedSeq(S) ==
    IF S = {} THEN <<>>
    ELSE LET m == CHOOSE x \in S : \A y \in S : x <= y
         IN <<m>> \o SortedSeq(S \ {m})

sorted_keys(c) == SortedSeq({BlsKeyOf[a] : a \in Authorities})

\* slice::binary_search(..).unwrap(): the 0-based index of the key.
binary_search(keys, key) ==
    (CHOOSE i \in 1..Len(keys) : keys[i] = key) - 1

----------------------------------------------------------------------------
(* Messages (messages.rs, not part of the sources at hand).                *)

\* Header ids are content hashes: the id is the content.
Digest_of_header(author, round, payload) == <<"H", author, round, payload>>

MkHeader(author, round, payload, ok) ==
    [author |-> author, round |-> round, payload |-> payload,
     id |-> Digest_of_header(author, round, payload), sig_ok |-> ok]

\* A signature share: who made it, over which header id, and whether it
\* verifies under the signer's key share.
MkShare(signer, id, ok) == [signer |-> signer, id |-> id, ok |-> ok]

MkVote(id, round, origin, author, ok) ==
    [id |-> id, round |-> round, origin |-> origin, author |-> author,
     signature |-> MkShare(author, id, ok)]

\* Vote::verify: the share verifies for this vote under the author's key.
Vote_verify(vote, c) ==
    /\ vote.signature.ok
    /\ vote.signature.signer = vote.author
    /\ vote.signature.id = vote.id

\* SignatureShareG1::default() is the identity of the group; aggregate_sign
\* adds shares: aggregates are bags of shares.
SignatureShareG1_default == EmptyBag

aggregate_sign(a, b) == a (+) b

ShareAsAggregate(share) == SetToBag({share})

NoCert == [id |-> <<>>, round |-> 0, origin |-> "none", votes |-> <<0, EmptyBag>>]

\* No header: none is being made by the Proposer, none is held by a handler.
NoHeader == [author |-> "none", round |-> 0, payload |-> <<>>, id |-> <<>>, sig_ok |-> FALSE]

\* No vote is held by a handler.
NoVote == MkVote(<<>>, 0, "none", "none", FALSE)

----------------------------------------------------------------------------
(* Bitmap arithmetic on pk_bit_vec.                                        *)

RECURSIVE Pow2(_)
Pow2(n) == IF n = 0 THEN 1 ELSE 2 * Pow2(n - 1)

BitSet(x, i) == (x \div Pow2(i)) % 2 = 1

\* x | (1 << i); i is an index into sorted_keys, far below the 128 bits of
\* the u128 bitmap for the committees of the model, so nothing is shifted out.
BitOrShl(x, i) == IF BitSet(x, i) THEN x ELSE x + Pow2(i)

RECURSIVE PopCount(_)
PopCount(x) == IF x = 0 THEN 0 ELSE (x % 2) + PopCount(x \div 2)

----------------------------------------------------------------------------
(* VotesAggregator (aggregators.rs).                                       *)

VotesAggregator_new ==
    [weight |-> 0, votes |-> <<>>, used |-> {}, agg_sign |-> SignatureShareG1_default,
     pk_bit_vec |-> 0, is_qc_sent |-> FALSE]

\* aggregators.rs:41  self.used.insert(author) is false: the author voted before.
authority_reused_never(self, author) == FALSE
authority_reused(self, author) == author \in self.used

\* aggregators.rs:43-44  bookkeeping done before the vote is verified.
record_vote_unweighted(self, vote, c) ==
    [self EXCEPT !.used = @ \cup {vote.author},
                 !.votes = Append(@, <<get_bls_public_g2(c, vote.author), vote.signature>>)]
record_vote(self, vote, c) ==
    [self EXCEPT !.used = @ \cup {vote.author},
                 !.votes = Append(@, <<get_bls_public_g2(c, vote.author), vote.signature>>),
                 !.weight = @ + stake(c, vote.author)]

\* aggregators.rs:54-55, 61-62  the bit of the author's key share.
signer_bit_first(c, author) == 0
signer_bit(c, author) == binary_search(sorted_keys(c), get_bls_public_g2(c, author))

\* aggregators.rs:50-63  fold the verified share into the aggregate and the bitmap.
aggregate_vote_overwrite(self, vote, c) ==
    [self EXCEPT !.agg_sign = ShareAsAggregate(vote.signature),
                 !.pk_bit_vec = BitOrShl(@, signer_bit(c, vote.author))]
aggregate_vote(self, vote, c) ==
    IF Len(self.votes) = 1
    THEN [self EXCEPT !.agg_sign = ShareAsAggregate(vote.signature),
                      !.pk_bit_vec = BitOrShl(@, signer_bit(c, vote.author))]
    ELSE [self EXCEPT !.agg_sign = aggregate_sign(@, ShareAsAggregate(vote.signature)),
                      !.pk_bit_vec = BitOrShl(@, signer_bit(c, vote.author))]

\* aggregators.rs:46  the certificate is out: the vote is neither verified
\* nor aggregated.
quorum_was_sent_ignored(self) == FALSE
quorum_was_sent(self) == self.is_qc_sent

\* aggregators.rs:65  the quorum test.
quorum_reached(self, c) == self.weight >= validity_threshold(c)

\* aggregators.rs:66-69  quorum is reached only once.
mark_sent_forgotten(self) == self
mark_sent(self) == [self EXCEPT !.weight = 0, !.is_qc_sent = TRUE]

\* aggregators.rs:71-76
make_certificate_of_round_0(self, header) ==
    [id |-> header.id, round |-> 0, origin |-> header.author,
     votes |-> <<self.pk_bit_vec, self.agg_sign>>]
make_certificate(self, header) ==
    [id |-> header.id, round |-> header.round, origin |-> header.author,
     votes |-> <<self.pk_bit_vec, self.agg_sign>>]

\* aggregators.rs:31-81  VotesAggregator::append; the result is the aggregator
\* after the call, the kind of result and the certificate (if any).
append(self, vote, c, header) ==
    IF authority_reused(self, vote.author)
    THEN [agg |-> self, tag |-> "AuthorityReuse", cert |-> NoCert]
    ELSE LET s1 == record_vote(self, vote, c) IN
         IF ~quorum_was_sent(s1)
         THEN IF ~Vote_verify(vote, c)
              THEN [agg |-> s1, tag |-> "InvalidSignature", cert |-> NoCert]
              ELSE LET s2 == aggregate_vote(s1, vote, c) IN
                   IF quorum_reached(s2, c)
                   THEN LET s3 == mark_sent(s2) IN
                        [agg |-> s3, tag |-> "Some", cert |-> make_certificate(s3, header)]
                   ELSE [agg |-> s2, tag |-> "None", cert |-> NoCert]
         ELSE [agg |-> s1, tag |-> "None", cert |-> NoCert]

----------------------------------------------------------------------------
(* Core (core.rs): configuration and message universe.                     *)

\* core.rs:30  the public key of this primary.
Name == "a1"

\* core.rs:42  the depth of the garbage collector.
gc_depth == 1

AuthoritySeq == <<"a1", "a2", "a3">>

\* committee.others_primaries(&name)
others_primaries(c, name) == SelectSeq(AuthoritySeq, LAMBDA a : a # name)

\* Rounds of the messages: round 0 is below every positive gc_round.
Rounds == 0..MaxRound
Payloads == {"p", "q"}

\* Headers of this primary: its Proposer makes every header for round 1
\* (proposer.rs:55, the round is never advanced).
OwnHeaders == { MkHeader(Name, 1, p, TRUE) : p \in Payloads }
\* Headers of the peer a2, which makes two headers for round 0.
PeerMadeHeaders == { MkHeader("a2", r, "p", TRUE) : r \in Rounds }
                      \cup { MkHeader("a2", 0, "q", TRUE) }
ValidHeaders == OwnHeaders \cup PeerMadeHeaders
\* Header messages of the peers: the valid headers (our own ones echoed back
\* included) and one whose signature does not verify.
PeerHeaders == ValidHeaders \cup { MkHeader("a2", 0, "p", FALSE) }
\* Headers the HeaderWaiter hands back.
LoopbackHeaders == { MkHeader("a2", r, "p", TRUE) : r \in Rounds }

\* Header::verify (messages.rs)
Header_verify(header, c) == header.sig_ok

\* Vote::new (messages.rs): a vote for the header, signed by `author`.
Vote_new(header, author) == MkVote(header.id, header.round, header.author, author, TRUE)

\* Votes of the peers for the headers of this primary, with a valid or an
\* invalid share.
MatchingVotes == { MkVote(h.id, h.round, h.author, a, ok) :
                     h \in OwnHeaders, a \in Authorities \ {Name}, ok \in BOOLEAN }

\* Votes of the peer a2 that carry the id of a header of this primary with
\* another round or another origin.
MismatchedVotes ==
    { MkVote(h.id, h.round - 1, h.author, "a2", TRUE) : h \in { g \in OwnHeaders : g.payload = "p" } }
    \cup { MkVote(h.id, h.round, "a2", "a2", TRUE) : h \in { g \in OwnHeaders : g.payload = "p" } }

PeerVotes == MatchingVotes \cup MismatchedVotes

\* Certificate::digest (messages.rs): the hash of the header id, round and origin.
Certificate_digest(certificate) ==
    <<"C", <<certificate.id, certificate.round, certificate.origin>>>>

SignersOf(c, bitmap) == { a \in Authorities : BitSet(bitmap, binary_search(sorted_keys(c), get_bls_public_g2(c, a))) }

\* Certificate::verify (messages.rs): the signers hold a quorum of stake and the
\* aggregate is the sum of their valid shares over the header id.
Certificate_verify(certificate, c) ==
    /\ SumStake(c, SignersOf(c, certificate.votes[1])) >= validity_threshold(c)
    /\ certificate.votes[2] =
          SetToBag({ MkShare(a, certificate.id, TRUE) : a \in SignersOf(c, certificate.votes[1]) })

AllBits == Pow2(Cardinality(Authorities)) - 1

\* Certificates a peer may assert: for each header one signed by everyone,
\* and for the header of round 0 one carrying a forged aggregate.
PeerCertificates ==
    { [id |-> h.id, round |-> h.round, origin |-> h.author,
       votes |-> <<AllBits, SetToBag({ MkShare(a, h.id, TRUE) : a \in Authorities })>>] :
        h \in LoopbackHeaders }
    \cup { [id |-> h.id, round |-> h.round, origin |-> h.author,
             votes |-> <<AllBits, EmptyBag>>] :
             h \in { g \in LoopbackHeaders : g.round = 0 } }

----------------------------------------------------------------------------
(* Maps, bags and the effects of one event.                                *)

EmptyMap == [x \in {} |-> 0]
Put(m, k, v) == [x \in DOMAIN m \cup {k} |-> IF x = k THEN v ELSE m[x]]
Remove(m, k) == [x \in DOMAIN m \ {k} |-> m[x]]
Get(m, k, default) == IF k \in DOMAIN m THEN m[k] ELSE default
BagAdd(b, x) == b (+) SetToBag({x})
BagRemove(b, x) == b (-) SetToBag({x})

Effect(op, id, round, to) == [op |-> op, id |-> id, round |-> round, to |-> to]

\* The Core as a record, for the handlers to thread through.
CoreState ==
    [alive |-> alive, gc_round |-> gc_round, last_voted |-> last_voted,
     cancel_handlers |-> cancel_handlers, processing_headers |-> processing_headers,
     processing_vote_aggregators |-> processing_vote_aggregators, store |-> store,
     tx_consensus |-> tx_consensus, blocked |-> blocked, pool |-> pool,
     votes_created |-> votes_created,
     cert_broadcasts |-> cert_broadcasts, awaiting |-> awaiting, trace |-> <<>>, result |-> "Ok"]

\* The handler is inside no await.
NoWait == [at |-> 0, header |-> NoHeader, vote |-> NoVote, certificate |-> NoCert]

\* The handler has made the call of line `at` of core.rs and awaits its
\* completion; the header, vote and certificate are the locals it goes on with.
await(c, at, header, vote, certificate) ==
    [c EXCEPT !.awaiting =
                 [at |-> at, header |-> header, vote |-> vote, certificate |-> certificate]]

\* store.write(key, value)
store_write(c, key, value, round) ==
    [c EXCEPT !.store = Put(@, key, value),
              !.trace = Append(@, Effect("store_write", key, round, "store"))]

\* network.broadcast(addresses, bytes)
network_broadcast(c, kind, id, round) ==
    [c EXCEPT !.trace = Append(@, Effect("broadcast_" \o kind, id, round,
                                         others_primaries(committee, Name)))]

\* network.send(address, bytes)
network_send(c, kind, id, round, to) ==
    [c EXCEPT !.trace = Append(@, Effect("send_" \o kind, id, round, <<to>>))]

\* cancel_handlers.entry(round).or_insert_with(Vec::new).extend(handlers)
extend_handlers(c, round, handlers) ==
    [c EXCEPT !.cancel_handlers = Put(@, round, Get(@, round, <<>>) \o handlers)]

\* cancel_handlers.entry(round).or_insert_with(Vec::new).push(handler)
push_handler_dropped(c, round, handler) == c
push_handler(c, round, handler) ==
    [c EXCEPT !.cancel_handlers = Put(@, round, Append(Get(@, round, <<>>), handler))]

----------------------------------------------------------------------------
(* Core (core.rs): the handlers, each cut at its awaits.                   *)

\* core.rs:254  the channel to the consensus layer has no free slot.
sink_full(c) == BagCardinality(c.tx_consensus) >= SinkCapacity

\* core.rs:254-259  the send completes: the certificate is in the channel, or
\* the channel is closed and the error is logged.
sink_send_done(c, certificate) ==
    IF sink_closed
    THEN [c EXCEPT !.trace = Append(@, Effect("consensus_failed", certificate.id,
                                              certificate.round, "consensus"))]
    ELSE [c EXCEPT !.tx_consensus = BagAdd(@, certificate),
                   !.trace = Append(@, Effect("consensus", certificate.id,
                                              certificate.round, "consensus"))]

\* core.rs:254  tx_consensus.send(certificate).await: on a full channel the
\* task waits for a free slot (or for the channel to close).
sink_send_dedup(c, certificate) ==
    IF certificate \in BagToSet(c.tx_consensus) THEN c
    ELSE IF ~sink_closed /\ sink_full(c)
    THEN [c EXCEPT !.blocked = certificate]
    ELSE sink_send_done(c, certificate)
sink_send(c, certificate) ==
    IF ~sink_closed /\ sink_full(c)
    THEN [c EXCEPT !.blocked = certificate]
    ELSE sink_send_done(c, certificate)

\* core.rs:225-243  process_certificate up to the await of store.write.
process_certificate_unstored(c, certificate) == await(c, 243, NoHeader, NoVote, certificate)
process_certificate(c, certificate) ==
    await(store_write(c, Certificate_digest(certificate), certificate, certificate.round),
          243, NoHeader, NoVote, certificate)

\* core.rs:253-260  process_certificate after store.write: the send to the
\* consensus layer.
process_certificate_after_write(c, certificate) ==
    sink_send([c EXCEPT !.awaiting = NoWait], certificate)

\* core.rs:212-213  the certified header leaves the in-flight maps.
evict_nothing(c, id) == c
evict(c, id) ==
    [c EXCEPT !.processing_headers = Remove(@, id),
              !.processing_vote_aggregators = Remove(@, id),
              !.trace = Append(@, Effect("evict", id, c.processing_headers[id].round, "in_flight"))]

\* core.rs:184-206  process_vote up to the await of network.broadcast.
process_vote(c, vote) ==
    IF vote.id \in DOMAIN c.processing_headers
       /\ vote.id \in DOMAIN c.processing_vote_aggregators
    THEN LET header == c.processing_headers[vote.id]
             r == append(c.processing_vote_aggregators[vote.id], vote, committee, header)
             c1 == [c EXCEPT !.processing_vote_aggregators[vote.id] = r.agg]
         IN IF r.tag \in {"AuthorityReuse", "InvalidSignature"}
            THEN [c1 EXCEPT !.result = r.tag]
            ELSE IF r.tag = "Some"
                 THEN LET c2 == network_broadcast(c1, "Certificate", r.cert.id, r.cert.round)
                          c3 == [c2 EXCEPT !.cert_broadcasts =
                                              Put(@, r.cert.id, Get(@, r.cert.id, 0) + 1)]
                      IN await(c3, 206, NoHeader, vote, r.cert)
                 ELSE c1
    ELSE c

\* core.rs:207-218  process_vote after network.broadcast: the handlers are
\* kept, the header is evicted and process_certificate is called.
process_vote_after_broadcast(c, vote, certificate) ==
    process_certificate(
        evict(extend_handlers(c, certificate.round, others_primaries(committee, Name)), vote.id),
        certificate)

\* core.rs:114-119  the header and a new aggregator enter the in-flight maps
\* (or_insert: an entry that is there already is kept).
register_header_only(c, header) ==
    [c EXCEPT
       !.processing_headers =
           IF header.id \in DOMAIN @ THEN @ ELSE Put(@, header.id, header),
       !.trace = Append(@, Effect("register", header.id, header.round, "in_flight"))]
register(c, header) ==
    [c EXCEPT
       !.processing_headers =
           IF header.id \in DOMAIN @ THEN @ ELSE Put(@, header.id, header),
       !.processing_vote_aggregators =
           IF header.id \in DOMAIN @ THEN @ ELSE Put(@, header.id, VotesAggregator_new),
       !.trace = Append(@, Effect("register", header.id, header.round, "in_flight"))]

\* core.rs:151-153  the header is written to the store under its id.
persist_and_register(c, header) ==
    register(store_write(c, header.id, header, header.round), header)
persist(c, header) == store_write(c, header.id, header, header.round)

\* core.rs:141-153  process_header up to the await of store.write.
process_header(c, header) == await(persist(c, header), 153, header, NoVote, NoCert)

\* core.rs:158  process_header after store.write: Vote::new is called.
process_header_after_write(c, header) ==
    LET vote == Vote_new(header, Name) IN
    await([c EXCEPT !.votes_created =
                       @ \cup {[id |-> vote.id, round |-> vote.round, origin |-> vote.origin]},
                    !.trace = Append(@, Effect("vote_new", vote.id, vote.round, vote.origin))],
          158, header, vote, NoCert)

\* core.rs:161-173  process_header after Vote::new: the vote for a header of
\* this primary goes to process_vote, any other one to the author of the header.
process_header_after_vote_new(c, header, vote) ==
    IF vote.origin = Name
    THEN LET c3 == process_vote([c EXCEPT !.awaiting = NoWait], vote) IN
         \* .expect("Failed to process our own vote")
         IF c3.result # "Ok" THEN [c3 EXCEPT !.result = "panic", !.alive = FALSE] ELSE c3
    ELSE await(network_send(c, "Vote", vote.id, header.round, header.author),
               173, header, NoVote, NoCert)

\* core.rs:174-180  process_header after network.send: the handler is kept.
process_header_after_send(c, header) ==
    push_handler([c EXCEPT !.awaiting = NoWait], header.round, header.author)

\* core.rs:112-130  process_own_header up to the await of network.broadcast.
process_own_header_unannounced(c, header) ==
    await(register(c, header), 130, header, NoVote, NoCert)
process_own_header(c, header) ==
    await(network_broadcast(register(c, header), "Header", header.id, header.round),
          130, header, NoVote, NoCert)

\* core.rs:131-137  process_own_header after network.broadcast: the handlers
\* are kept and process_header is called.
process_own_header_after_broadcast(c, header) ==
    process_header(extend_handlers(c, header.round, others_primaries(committee, Name)), header)

\* core.rs:263-275
header_too_old_le(c, header) == ~(c.gc_round < header.round)
header_too_old(c, header) == ~(c.gc_round <= header.round)

sanitize_header(c, header) ==
    IF header_too_old(c, header) THEN "HeaderTooOld"
    ELSE IF ~Header_verify(header, committee) THEN "InvalidSignature"
    ELSE "Ok"

\* core.rs:281  the vote is on the expected header.
vote_matches_id_only(vote, header) == vote.id = header.id
vote_matches(vote, header) ==
    vote.id = header.id /\ vote.origin = header.author /\ vote.round = header.round

\* core.rs:277-291
sanitize_vote_strict(c, vote) ==
    IF vote.id \in DOMAIN c.processing_headers
    THEN IF vote_matches(vote, c.processing_headers[vote.id]) THEN "Ok" ELSE "UnexpectedVote"
    ELSE "UnexpectedVote"
sanitize_vote(c, vote) ==
    IF vote.id \in DOMAIN c.processing_headers
    THEN IF vote_matches(vote, c.processing_headers[vote.id]) THEN "Ok" ELSE "UnexpectedVote"
    ELSE "Ok"

\* core.rs:299-302
certificate_too_old_le(c, certificate) == ~(c.gc_round < certificate.round)
certificate_too_old(c, certificate) == ~(c.gc_round <= certificate.round)

\* core.rs:293-315  the certificate is handed to the thread pool.
sanitize_certificate(c, certificate) ==
    IF certificate_too_old(c, certificate)
    THEN [c EXCEPT !.result = "CertificateTooOld"]
    ELSE [c EXCEPT !.pool = BagAdd(@, certificate),
                   !.trace = Append(@, Effect("pool_execute", certificate.id, certificate.round, "pool"))]

\* core.rs:381-390  cleanup of the internal state, at the end of each iteration.
Retain_above(m, floor) == [k \in {x \in DOMAIN m : x > floor} |-> m[k]]
Retain(m, floor) == [k \in {x \in DOMAIN m : x >= floor} |-> m[k]]

cleanup_unconditional(c) ==
    LET round == consensus_round - gc_depth IN
    [c EXCEPT !.last_voted = Retain(@, round),
              !.cancel_handlers = Retain(@, round),
              !.gc_round = round]
cleanup_in_flight_too(c) ==
    IF consensus_round > gc_depth
    THEN LET round == consensus_round - gc_depth IN
         [c EXCEPT !.last_voted = Retain(@, round),
                   !.cancel_handlers = Retain(@, round),
                   !.gc_round = round,
                   !.processing_headers =
                       [k \in {x \in DOMAIN @ : @[x].round >= round} |-> @[k]],
                   !.processing_vote_aggregators =
                       [k \in {x \in DOMAIN @ : c.processing_headers[x].round >= round} |-> @[k]]]
    ELSE c
cleanup(c) ==
    IF consensus_round > gc_depth
    THEN LET round == consensus_round - gc_depth IN
         [c EXCEPT !.last_voted = Retain(@, round),
                   !.cancel_handlers = Retain(@, round),
                   !.gc_round = round]
    ELSE c

\* The handler that led the Core to c has returned to the dispatch loop.
returned(c) == c.blocked = NoCert /\ c.awaiting = NoWait

\* One run of the Core task from one await (or the select) to the next: the
\* handler goes on to its next await, or it returns and the iteration ends
\* (core.rs:369-390: the result is logged and the state cleaned up); a panic
\* ends the task.
CoreRuns(c) ==
    LET d == IF c.alive /\ returned(c) THEN cleanup(c) ELSE c IN
    /\ alive' = d.alive
    /\ blocked' = d.blocked
    /\ awaiting' = d.awaiting
    /\ gc_round' = d.gc_round
    /\ last_voted' = d.last_voted
    /\ cancel_handlers' = d.cancel_handlers
    /\ processing_headers' = d.processing_headers
    /\ processing_vote_aggregators' = d.processing_vote_aggregators
    /\ store' = d.store
    /\ tx_consensus' = d.tx_consensus
    /\ pool' = d.pool
    /\ votes_created' = d.votes_created
    /\ cert_broadcasts' = d.cert_broadcasts
    /\ trace' = d.trace
    /\ UNCHANGED <<committee, consensus_round, sink_closed, aggVars, syncVars, propVars>>

\* core.rs:328-368  the select takes an event and its handler runs to its
\* first await, or to its end.
Iteration(c, kind, msg) ==
    /\ CoreRuns(c)
    /\ last' = [kind |-> kind, round |-> msg.round, result |-> c.result]
    /\ events' = events + 1

\* The call the handler awaited has completed and the handler goes on from c.
Resumes(c) ==
    /\ CoreRuns(c)
    /\ last' = [last EXCEPT !.result = c.result]
    /\ UNCHANGED <<events, rx_verified, delivered>>

\* The Core as the handler finds it when it goes on after an await.
Resumed == [CoreState EXCEPT !.trace = trace]

\* core.rs:327-330  the loop is at its select: the task is alive and the
\* handler of the event before has returned.
CanReceive == alive /\ returned(CoreState) /\ events < MaxEvents

\* The other tasks run while there are events to come or the handler of the
\* last one is at an await.
OthersRun == events < MaxEvents \/ awaiting # NoWait

\* core.rs:332-337  PrimaryMessage::Header
RecvHeader ==
    /\ CanReceive
    /\ \E header \in PeerHeaders :
         LET s == sanitize_header(CoreState, header) IN
         Iteration(IF s = "Ok" THEN process_header(CoreState, header)
                   ELSE [CoreState EXCEPT !.result = s], "Header", header)
    /\ UNCHANGED <<rx_verified, delivered>>

\* core.rs:338-343  PrimaryMessage::Vote
RecvVote ==
    /\ CanReceive
    /\ \E vote \in PeerVotes :
         LET s == sanitize_vote(CoreState, vote) IN
         Iteration(IF s = "Ok" THEN process_vote(CoreState, vote)
                   ELSE [CoreState EXCEPT !.result = s], "Vote", vote)
    /\ UNCHANGED <<rx_verified, delivered>>

\* core.rs:344-348  PrimaryMessage::Certificate
RecvCertificate ==
    /\ CanReceive
    /\ \E certificate \in PeerCertificates :
         Iteration(sanitize_certificate(CoreState, certificate), "Certificate", certificate)
    /\ UNCHANGED <<rx_verified, delivered>>

\* core.rs:305-313  a worker of the thread pool: the result of verify is dropped
\* and the certificate is sent back as a VerifiedCertificate.
PoolWorker_writes_store ==
    /\ OthersRun
    /\ \E certificate \in BagToSet(pool) :
         /\ pool' = BagRemove(pool, certificate)
         /\ rx_verified' = BagAdd(rx_verified, certificate)
         /\ store' = Put(store, certificate.id, certificate)
    /\ UNCHANGED <<committee, aggVars, syncVars, propVars, delivered, alive, consensus_round, gc_round, last_voted,
                   cancel_handlers, processing_headers, processing_vote_aggregators,
                   tx_consensus, sink_closed, blocked, awaiting, votes_created,
                   cert_broadcasts, events, last, trace>>
PoolWorker ==
    /\ OthersRun
    /\ \E certificate \in BagToSet(pool) :
         /\ pool' = BagRemove(pool, certificate)
         /\ rx_verified' = BagAdd(rx_verified, certificate)
    /\ UNCHANGED <<committee, aggVars, syncVars, propVars, delivered, alive, consensus_round, gc_round, last_voted,
                   cancel_handlers, processing_headers, processing_vote_aggregators,
                   store, tx_consensus, sink_closed, blocked, awaiting, votes_created,
                   cert_broadcasts, events, last, trace>>

\* core.rs:349-352  PrimaryMessage::VerifiedCertificate
RecvVerifiedCertificate ==
    /\ CanReceive
    /\ \E certificate \in BagToSet(rx_verified) :
         /\ rx_verified' = BagRemove(rx_verified, certificate)
         /\ Iteration(process_certificate(CoreState, certificate),
                      "VerifiedCertificate", certificate)
    /\ UNCHANGED delivered

\* core.rs:359  loopback headers from the HeaderWaiter
RecvLoopbackHeader ==
    /\ CanReceive
    /\ \E header \in LoopbackHeaders :
         Iteration(process_header(CoreState, header), "LoopbackHeader", header)
    /\ UNCHANGED <<rx_verified, delivered>>

\* core.rs:364  loopback certificates from the CertificateWaiter
RecvLoopbackCertificate ==
    /\ CanReceive
    /\ \E certificate \in PeerCertificates :
         Iteration(process_certificate(CoreState, certificate),
                   "LoopbackCertificate", certificate)
    /\ UNCHANGED <<rx_verified, delivered>>

\* core.rs:367  our new headers created by the Proposer
RecvOwnHeader ==
    /\ CanReceive
    /\ \E header \in OwnHeaders :
         Iteration(process_own_header(CoreState, header), "OwnHeader", header)
    /\ UNCHANGED <<rx_verified, delivered>>

\* core.rs:130  network.broadcast of the own header has completed.
BroadcastHeaderDone ==
    /\ alive
    /\ awaiting.at = 130
    /\ Resumes(process_own_header_after_broadcast(Resumed, awaiting.header))

\* core.rs:153  store.write of the header has completed.
WriteHeaderDone ==
    /\ alive
    /\ awaiting.at = 153
    /\ Resumes(process_header_after_write(Resumed, awaiting.header))

\* core.rs:158  Vote::new has completed.
VoteNewDone ==
    /\ alive
    /\ awaiting.at = 158
    /\ Resumes(process_header_after_vote_new(Resumed, awaiting.header, awaiting.vote))

\* core.rs:173  network.send of the vote has completed.
SendVoteDone ==
    /\ alive
    /\ awaiting.at = 173
    /\ Resumes(process_header_after_send(Resumed, awaiting.header))

\* core.rs:206  network.broadcast of the certificate has completed.
BroadcastCertificateDone ==
    /\ alive
    /\ awaiting.at = 206
    /\ Resumes(process_vote_after_broadcast(Resumed, awaiting.vote, awaiting.certificate))

\* core.rs:243  store.write of the certificate has completed.
WriteCertificateDone ==
    /\ alive
    /\ awaiting.at = 243
    /\ Resumes(process_certificate_after_write(Resumed, awaiting.certificate))

\* core.rs:40  the consensus layer advances the shared consensus round.
AdvanceConsensusRound ==
    /\ OthersRun
    /\ consensus_round < MaxConsensusRound
    /\ consensus_round' = consensus_round + 1
    /\ UNCHANGED <<committee, aggVars, syncVars, propVars, delivered, alive, gc_round, last_voted, cancel_handlers,
                   processing_headers, processing_vote_aggregators, store, tx_consensus,
                   sink_closed, blocked, awaiting,
                   pool, rx_verified, votes_created, cert_broadcasts, events, last, trace>>

\* core.rs:254  the awaited send completes once the channel has a free slot or
\* is closed; process_certificate returns Ok and the iteration ends (core.rs:369-390).
SinkSendCompletes ==
    /\ alive
    /\ blocked # NoCert
    /\ sink_closed \/ ~sink_full(CoreState)
    /\ LET c == sink_send_done([CoreState EXCEPT !.blocked = NoCert, !.trace = trace], blocked)
           d == cleanup(c)
       IN /\ blocked' = NoCert
          /\ tx_consensus' = d.tx_consensus
          /\ trace' = d.trace
          /\ gc_round' = d.gc_round
          /\ last_voted' = d.last_voted
          /\ cancel_handlers' = d.cancel_handlers
    /\ UNCHANGED <<committee, aggVars, syncVars, propVars, delivered, alive, consensus_round, processing_headers,
                   processing_vote_aggregators, store, sink_closed, awaiting, pool, rx_verified,
                   votes_created, cert_broadcasts, events, last>>

\* The consensus layer takes a certificate out of the channel.
ConsensusRecv ==
    /\ ~sink_closed
    /\ OthersRun \/ blocked # NoCert
    /\ \E certificate \in BagToSet(tx_consensus) :
         tx_consensus' = BagRemove(tx_consensus, certificate)
    /\ UNCHANGED <<committee, aggVars, syncVars, propVars, delivered, alive, consensus_round, gc_round, last_voted,
                   cancel_handlers, processing_headers, processing_vote_aggregators,
                   store, sink_closed, blocked, awaiting, pool, rx_verified, votes_created,
                   cert_broadcasts, events, last, trace>>

\* The consensus layer drops its Receiver: the channel is closed and what
\* waited in it is gone.
ConsensusClose ==
    /\ ~sink_closed
    /\ OthersRun \/ blocked # NoCert
    /\ sink_closed' = TRUE
    /\ tx_consensus' = EmptyBag
    /\ UNCHANGED <<committee, aggVars, syncVars, propVars, delivered, alive, consensus_round, gc_round, last_voted,
                   cancel_handlers, processing_headers, processing_vote_aggregators,
                   store, blocked, awaiting, pool, rx_verified, votes_created,
                   cert_broadcasts, events, last, trace>>

NoEvent == [kind |-> "none", round |-> 0, result |-> "Ok"]

\* core.rs:86-106  the Core as spawned.
CoreIdle ==
    /\ alive = TRUE
    /\ consensus_round = 0
    /\ gc_round = 0
    /\ last_voted = EmptyMap
    /\ cancel_handlers = EmptyMap
    /\ processing_headers = EmptyMap
    /\ processing_vote_aggregators = EmptyMap
    /\ store = EmptyMap
    /\ tx_consensus = EmptyBag
    /\ sink_closed = FALSE
    /\ blocked = NoCert
    /\ awaiting = NoWait
    /\ pool = EmptyBag
    /\ rx_verified = EmptyBag
    /\ votes_created = {}
    /\ cert_broadcasts = EmptyMap
    /\ events = 0
    /\ last = NoEvent
    /\ trace = <<>>
    /\ delivered = {}

AggIdle ==
    /\ agg = VotesAggregator_new
    /\ aggPre = VotesAggregator_new
    /\ aggCalls = <<>>

----------------------------------------------------------------------------
(* Synchronizer (synchronizer.rs).                                         *)

Digests == {"d1", "d2"}
WorkerIds == {0, 1}

\* The payload of a header as the Synchronizer reads it: the worker id of
\* each batch digest.
SyncPayloads == UNION { [D -> WorkerIds] : D \in SUBSET Digests }

\* Headers given to missing_payload: of this primary and of the peer a2.
SyncHeaders == { MkHeader(a, 1, payload, TRUE) : a \in {Name, "a2"}, payload \in SyncPayloads }

\* synchronizer.rs:56  digest ‖ worker_id.to_le_bytes(): both parts have a
\* fixed width, so the key is the pair.
payload_key_of_worker_0(digest, worker_id) == <<digest, 0>>
payload_key(digest, worker_id) == <<digest, worker_id>>

\* synchronizer.rs:46  the payload is iterated in the order of its digests.
DigestOrder == <<"d1", "d2">>
InPayload(header) == LET Carried(d) == d \in DOMAIN header.payload IN SelectSeq(DigestOrder, Carried)
payload_pairs(header) ==
    [i \in 1..Len(InPayload(header)) |-> <<InPayload(header)[i], header.payload[InPayload(header)[i]]>>]

\* synchronizer.rs:57-59  one read of the store: the pair is recorded when
\* the store has no value under its key.
record_missing_always(missing, st, pair) == Put(missing, pair[1], pair[2])
record_missing(missing, st, pair) ==
    IF payload_key(pair[1], pair[2]) \notin DOMAIN st
    THEN Put(missing, pair[1], pair[2])
    ELSE missing

\* WaiterMessage::SyncBatches(missing, header)
SyncBatches(missing, header) == [missing |-> missing, header |-> header]

\* The bounded channel to the HeaderWaiter has no free slot.
waiter_full(waiter) == Len(waiter) >= WaiterCapacity

NoSyncCall == [header |-> MkHeader(Name, 1, EmptyMap, TRUE), result |-> FALSE]

\* No call of missing_payload is in progress.
NoCall == [pc |-> "idle", header |-> NoSyncCall.header, todo |-> <<>>, missing |-> EmptyMap]

\* synchronizer.rs:22-32
SyncIdle ==
    /\ tx_header_waiter = <<>>
    /\ waiter_closed = FALSE
    /\ sync_call = NoCall
    /\ sync_last = NoSyncCall
    /\ sync_calls = 0

----------------------------------------------------------------------------
(* Proposer (proposer.rs).                                                 *)

Transactions == {"t1", "t2"}

\* proposer.rs:136-138  the serialized size of a transaction.
serialized_len(tx) == IF tx = "t1" THEN 1 ELSE 2

\* proposer.rs:22  the size of the headers' payload.
header_size == 3

\* proposer.rs:124  transactions.iter().map(serialized_len).sum()
RECURSIVE SumLen(_)
SumLen(transactions) ==
    IF transactions = <<>> THEN 0
    ELSE serialized_len(Head(transactions)) + SumLen(Tail(transactions))

\* The batches a worker may send, the empty one included.
Batches == UNION { [1..n -> Transactions] : n \in 0..MaxBatchLen }

\* proposer.rs:109-111  the condition to propose a new header.
should_propose_on_size(size, elapsed) == size >= header_size
should_propose_on_timer(size, elapsed) == elapsed \/ size >= header_size
should_propose(size, elapsed) == (elapsed /\ size > 0) \/ size >= header_size

\* proposer.rs:69  self.txns.drain(..).collect(): what goes to the header and
\* what stays in the buffer.
drain_first(buffer) ==
    IF buffer = <<>> THEN [payload |-> <<>>, rest |-> <<>>]
    ELSE [payload |-> <<Head(buffer)>>, rest |-> Tail(buffer)]
drain(buffer) == [payload |-> buffer, rest |-> <<>>]

\* Header::new (messages.rs)
Header_new(author, round, payload) == MkHeader(author, round, payload, TRUE)

\* proposer.rs:64-72  the header made of the pending buffer, at the round of
\* the Proposer and in its name.
make_header_of_next_round(buffer) == Header_new(Name, proposer_round + 1, drain(buffer).payload)
make_header(buffer) == Header_new(Name, proposer_round, drain(buffer).payload)

\* proposer.rs:125  self.txns.extend(transactions)
extend_in_front(buffer, transactions) == transactions \o buffer
extend(buffer, transactions) == buffer \o transactions

\* The bounded channel to the Core has no free slot.
core_full(channel) == Len(channel) >= CoreCapacity

\* proposer.rs:47-58
ProposerIdle ==
    /\ pc = "check"
    /\ txns = <<>>
    /\ payload_size = 0
    /\ timer_elapsed = FALSE
    /\ pending_header = NoHeader
    /\ tx_core = <<>>
    /\ core_closed = FALSE
    /\ emitted = <<>>
    /\ proposer_round = 1
    /\ batches = <<>>

\* Committees of equal stake.
EqualStakeCommittees == { c \in Committees : \A a \in Authorities : c.stake[a] = 1 }

Init ==
    /\ committee \in EqualStakeCommittees
    /\ CoreIdle
    /\ AggIdle
    /\ SyncIdle
    /\ ProposerIdle

Next ==
    \/ RecvHeader
    \/ RecvVote
    \/ RecvCertificate
    \/ PoolWorker
    \/ RecvVerifiedCertificate
    \/ RecvLoopbackHeader
    \/ RecvLoopbackCertificate
    \/ RecvOwnHeader
    \/ BroadcastHeaderDone
    \/ WriteHeaderDone
    \/ VoteNewDone
    \/ SendVoteDone
    \/ BroadcastCertificateDone
    \/ WriteCertificateDone
    \/ AdvanceConsensusRound
    \/ SinkSendCompletes
    \/ ConsensusRecv
    \/ ConsensusClose

vars == <<committee, aggVars, coreVars, syncVars, propVars>>

Spec == Init /\ [][Next]_vars

----------------------------------------------------------------------------
(* The stand-alone aggregator: one header, any sequence of append calls.   *)

AggHeader == MkHeader("a1", 1, "p", TRUE)

AggVotes ==
    { MkVote(AggHeader.id, AggHeader.round, AggHeader.author, a, ok) :
        a \in Authorities, ok \in BOOLEAN }

InitAgg ==
    /\ committee \in Committees
    /\ AggIdle
    /\ CoreIdle
    /\ SyncIdle
    /\ ProposerIdle

AppendCall ==
    /\ Len(aggCalls) < MaxAppends
    /\ \E vote \in AggVotes :
         LET r == append(agg, vote, committee, AggHeader) IN
         /\ agg' = r.agg
         /\ aggPre' = agg
         /\ aggCalls' = Append(aggCalls, [vote |-> vote, tag |-> r.tag, cert |-> r.cert])
    /\ UNCHANGED <<committee, coreVars, syncVars, propVars>>

NextAgg == AppendCall

SpecAgg == InitAgg /\ [][NextAgg]_vars

----------------------------------------------------------------------------
(* Core certifying its own headers: the Proposer hands headers to Core and *)
(* the peers answer with votes, the consensus layer takes the certificates.*)

\* core.rs:338-343  a vote of a peer for an own header arrives; the history
\* keeps it when its header is in flight.
DeliverVote ==
    /\ alive
    /\ returned(CoreState)
    /\ Cardinality(delivered) < MaxDeliveries
    /\ \E vote \in MatchingVotes \ delivered :
         /\ LET s == sanitize_vote(CoreState, vote) IN
            Iteration(IF s = "Ok" THEN process_vote(CoreState, vote)
                      ELSE [CoreState EXCEPT !.result = s], "Vote", vote)
         /\ vote.id \in DOMAIN processing_headers
         /\ delivered' = delivered \cup {vote}
    /\ UNCHANGED rx_verified

NextCert ==
    \/ RecvOwnHeader
    \/ BroadcastHeaderDone
    \/ WriteHeaderDone
    \/ VoteNewDone
    \/ DeliverVote
    \/ BroadcastCertificateDone
    \/ WriteCertificateDone
    \/ SinkSendCompletes
    \/ ConsensusRecv

SpecCert == Init /\ [][NextCert]_vars

----------------------------------------------------------------------------
(* The Synchronizer alone: batches arrive in the store, missing_payload is *)
(* called on any header.                                                   *)

coreVarsButStore ==
    <<alive, consensus_round, gc_round, last_voted, cancel_handlers, processing_headers,
      processing_vote_aggregators, tx_consensus, sink_closed, blocked, awaiting, pool,
      rx_verified, votes_created, cert_broadcasts, events, last, trace, delivered>>

InitOne ==
    /\ committee = [stake |-> [a \in Authorities |-> 1], threshold |-> 2]
    /\ CoreIdle
    /\ AggIdle
    /\ SyncIdle
    /\ ProposerIdle

\* A worker reports a batch: the primary stores the marker of (digest, worker_id).
StoreBatch ==
    /\ \E digest \in Digests, worker_id \in WorkerIds :
         /\ payload_key(digest, worker_id) \notin DOMAIN store
         /\ store' = Put(store, payload_key(digest, worker_id), "batch")
    /\ UNCHANGED <<committee, aggVars, syncVars, propVars, coreVarsButStore>>

\* missing_payload returns result for header.
missing_payload_returns(header, result) ==
    /\ sync_call' = NoCall
    /\ sync_last' = [header |-> header, result |-> result]

\* synchronizer.rs:66-69  the send to the HeaderWaiter as it stands when the
\* task reaches it or is woken in it: a dropped receiver fails the send and
\* .expect panics, a full channel keeps the task waiting, a free slot takes
\* the message and the call returns true.
send_sync_batches ==
    IF waiter_closed
    THEN /\ sync_call' = [sync_call EXCEPT !.pc = "dead"]
         /\ UNCHANGED <<tx_header_waiter, sync_last>>
    ELSE IF waiter_full(tx_header_waiter)
    THEN /\ sync_call' = [sync_call EXCEPT !.pc = "sending"]
         /\ UNCHANGED <<tx_header_waiter, sync_last>>
    ELSE /\ tx_header_waiter' =
              Append(tx_header_waiter, SyncBatches(sync_call.missing, sync_call.header))
         /\ missing_payload_returns(sync_call.header, TRUE)

\* synchronizer.rs:37-44  missing_payload is called: a header of this primary
\* returns false at once, any other header starts the loop over its payload.
MissingPayloadCall ==
    /\ sync_call.pc = "idle"
    /\ sync_calls < MaxSyncCalls
    /\ \E header \in SyncHeaders :
         IF header.author = Name
         THEN missing_payload_returns(header, FALSE)
         ELSE /\ sync_call' = [pc |-> "reading", header |-> header,
                               todo |-> payload_pairs(header), missing |-> EmptyMap]
              /\ UNCHANGED sync_last
    /\ sync_calls' = sync_calls + 1
    /\ UNCHANGED <<committee, aggVars, propVars, coreVars, tx_header_waiter, waiter_closed>>

\* synchronizer.rs:46-60  one turn of the loop: store.read(key).await of the
\* next pair, on the store as it is when the read is served.
MissingPayloadRead ==
    /\ sync_call.pc = "reading"
    /\ sync_call.todo # <<>>
    /\ sync_call' = [sync_call EXCEPT !.missing = record_missing(@, store, Head(sync_call.todo)),
                                      !.todo = Tail(@)]
    /\ UNCHANGED <<committee, aggVars, propVars, coreVars, tx_header_waiter, waiter_closed,
                   sync_last, sync_calls>>

\* synchronizer.rs:62-70  after the loop: nothing missing returns false,
\* otherwise the request is sent to the HeaderWaiter.
MissingPayloadFinish ==
    /\ sync_call.pc = "reading"
    /\ sync_call.todo = <<>>
    /\ IF sync_call.missing = EmptyMap
       THEN /\ missing_payload_returns(sync_call.header, FALSE)
            /\ UNCHANGED tx_header_waiter
       ELSE send_sync_batches
    /\ UNCHANGED <<committee, aggVars, propVars, coreVars, waiter_closed, sync_calls>>

\* synchronizer.rs:66-69  the task waiting in send(..).await is woken: the
\* channel has a free slot, or its receiver is gone.
MissingPayloadSendCompletes ==
    /\ sync_call.pc = "sending"
    /\ waiter_closed \/ ~waiter_full(tx_header_waiter)
    /\ send_sync_batches
    /\ UNCHANGED <<committee, aggVars, propVars, coreVars, waiter_closed, sync_calls>>

\* The HeaderWaiter takes the next command from its channel.
WaiterRecv ==
    /\ ~waiter_closed
    /\ tx_header_waiter # <<>>
    /\ tx_header_waiter' = Tail(tx_header_waiter)
    /\ UNCHANGED <<committee, aggVars, propVars, coreVars, waiter_closed, sync_call,
                   sync_last, sync_calls>>

\* The HeaderWaiter task ends and drops its receiver with the commands in it.
WaiterClose ==
    /\ ~waiter_closed
    /\ waiter_closed' = TRUE
    /\ tx_header_waiter' = <<>>
    /\ UNCHANGED <<committee, aggVars, propVars, coreVars, sync_call, sync_last, sync_calls>>

NextSync ==
    \/ StoreBatch
    \/ MissingPayloadCall
    \/ MissingPayloadRead
    \/ MissingPayloadFinish
    \/ MissingPayloadSendCompletes
    \/ WaiterRecv
    \/ WaiterClose

SpecSync == InitOne /\ [][NextSync]_vars

----------------------------------------------------------------------------
(* The Proposer alone: batches arrive from the workers, time passes.       *)

\* proposer.rs:109-113, 64-72  the top of the loop: when a header is to be
\* proposed, make_header drains the buffer into Header::new and the task
\* waits in it; otherwise the task goes on to the select.
ProposerCheck ==
    /\ pc = "check"
    /\ IF should_propose(payload_size, timer_elapsed)
       THEN /\ pending_header' = make_header(txns)
            /\ txns' = drain(txns).rest
            /\ pc' = "make_header"
       ELSE /\ pc' = "select"
            /\ UNCHANGED <<pending_header, txns>>
    /\ UNCHANGED <<committee, aggVars, syncVars, coreVars, payload_size, timer_elapsed, tx_core,
                   core_closed, emitted, proposer_round, batches>>

\* proposer.rs:91-94, 113-118  Header::new has returned and the channel to
\* the Core has a free slot: tx_core.send(header).await completes,
\* make_header returns, payload_size and the timer are reset. While the
\* channel is full the task waits in the send.
ProposerSend ==
    /\ pc = "make_header"
    /\ ~core_closed
    /\ ~core_full(tx_core)
    /\ tx_core' = Append(tx_core, pending_header)
    /\ emitted' = Append(emitted, pending_header)
    /\ pending_header' = NoHeader
    /\ payload_size' = 0
    /\ timer_elapsed' = FALSE
    /\ pc' = "select"
    /\ UNCHANGED <<committee, aggVars, syncVars, coreVars, txns, core_closed, proposer_round,
                   batches>>

\* proposer.rs:91-94  the Core has dropped its receiver: the send fails and
\* .expect("Failed to send header") panics; the header is dropped with the
\* task.
ProposerSendFails ==
    /\ pc = "make_header"
    /\ core_closed
    /\ pending_header' = NoHeader
    /\ pc' = "dead"
    /\ UNCHANGED <<committee, aggVars, syncVars, coreVars, txns, payload_size, timer_elapsed,
                   tx_core, core_closed, emitted, proposer_round, batches>>

\* proposer.rs:122-126  a batch of the workers arrives.
ProposerRecvBatch ==
    /\ pc = "select"
    /\ Len(batches) < MaxBatches
    /\ \E transactions \in Batches :
         /\ payload_size' = payload_size + SumLen(transactions)
         /\ txns' = extend(txns, transactions)
         /\ batches' = Append(batches, transactions)
    /\ pc' = "check"
    /\ UNCHANGED <<committee, aggVars, syncVars, coreVars, timer_elapsed, pending_header, tx_core,
                   core_closed, emitted, proposer_round>>

\* proposer.rs:127-130  the timer arm of the select: nothing to do.
ProposerTimerFires ==
    /\ pc = "select"
    /\ timer_elapsed
    /\ pc' = "check"
    /\ UNCHANGED <<committee, aggVars, syncVars, coreVars, txns, payload_size, timer_elapsed,
                   pending_header, tx_core, core_closed, emitted, proposer_round, batches>>

\* Time passes: the deadline of the timer is reached.
TimerElapses ==
    /\ ~timer_elapsed
    /\ timer_elapsed' = TRUE
    /\ UNCHANGED <<committee, aggVars, syncVars, coreVars, pc, txns, payload_size,
                   pending_header, tx_core, core_closed, emitted, proposer_round, batches>>

\* The Core takes the next header from its channel.
CoreTakesHeader ==
    /\ ~core_closed
    /\ tx_core # <<>>
    /\ tx_core' = Tail(tx_core)
    /\ UNCHANGED <<committee, aggVars, syncVars, coreVars, pc, txns, payload_size, timer_elapsed,
                   pending_header, core_closed, emitted, proposer_round, batches>>

\* The Core task ends and drops its receiver with the headers in it.
CoreClose ==
    /\ ~core_closed
    /\ core_closed' = TRUE
    /\ tx_core' = <<>>
    /\ UNCHANGED <<committee, aggVars, syncVars, coreVars, pc, txns, payload_size, timer_elapsed,
                   pending_header, emitted, proposer_round, batches>>

\* The steps of the Proposer and of the Core beside it while the Core runs.
NextProposerLive ==
    \/ ProposerCheck
    \/ ProposerSend
    \/ ProposerRecvBatch
    \/ ProposerTimerFires
    \/ TimerElapses
    \/ CoreTakesHeader

NextProposer ==
    \/ ProposerCheck
    \/ ProposerSend
    \/ ProposerSendFails
    \/ ProposerRecvBatch
    \/ ProposerTimerFires
    \/ TimerElapses
    \/ CoreTakesHeader
    \/ CoreClose

SpecProposer == InitOne /\ [][NextProposer]_vars

\* The Proposer under fair scheduling while the Core runs: the task runs its
\* loop (proposer.rs:104), the sleep reaches its deadline, the select takes
\* its timer arm when the timer is ready and no batch is taken
\* (proposer.rs:121-131), the Core keeps its receiver and takes the headers
\* of its channel, and a send that has a free slot completes.
SpecProposerFair ==
    /\ InitOne
    /\ [][NextProposerLive]_vars
    /\ WF_vars(ProposerCheck)
    /\ WF_vars(ProposerSend)
    /\ WF_vars(CoreTakesHeader)
    /\ WF_vars(TimerElapses)
    /\ WF_vars(ProposerTimerFires)

----------------------------------------------------------------------------
(* Claims about VotesAggregator::append, checked under SpecAgg.            *)

LastCall == aggCalls[Len(aggCalls)]

\* The first k calls carried votes of pairwise distinct authorities.
DistinctCalls(k) ==
    \A i \in 1..k : \A j \in 1..(i - 1) : aggCalls[j].vote.author # aggCalls[i].vote.author

\* The authorities that contributed a vote in the first k calls: those whose
\* vote verifies.
Contributors(k) ==
    { aggCalls[i].vote.author : i \in { j \in 1..k : Vote_verify(aggCalls[j].vote, committee) } }

StakeAfter(k) == SumStake(committee, Contributors(k))

\* C1: over every sequence of append calls with votes of pairwise distinct
\* authorities, append returns a certificate on exactly the first call at
\* which the cumulative stake of the contributing authorities reaches the
\* validity threshold (with the bits of exactly those authorities), and
\* Ok(None) on every call before and after it.
C1_CertificateExactlyAtThreshold ==
    \A k \in 1..Len(aggCalls) :
        DistinctCalls(k) =>
            IF StakeAfter(k) >= validity_threshold(committee)
               /\ StakeAfter(k - 1) < validity_threshold(committee)
            THEN /\ aggCalls[k].tag = "Some"
                 /\ SignersOf(committee, aggCalls[k].cert.votes[1]) = Contributors(k)
            ELSE aggCalls[k].tag = "None"

\* C2: whenever append returns a certificate, the authorities whose bits are
\* set in its bitmap hold a total stake of at least the validity threshold,
\* also after calls that returned an error.
C2_CertificateSignersHoldThreshold ==
    \A k \in 1..Len(aggCalls) :
        aggCalls[k].tag = "Some" =>
            SumStake(committee, SignersOf(committee, aggCalls[k].cert.votes[1]))
                >= validity_threshold(committee)

\* C3 as claimed: the number of set bits of pk_bit_vec equals the number of
\* authorities recorded as contributors in used / votes.
C3_BitsEqualContributors ==
    /\ PopCount(agg.pk_bit_vec) = Cardinality(agg.used)
    /\ PopCount(agg.pk_bit_vec) = Len(agg.votes)

\* The authorities whose votes append accepted (returned Ok for) up to and
\* including the call that emitted the certificate.
Incorporated ==
    { aggCalls[k].vote.author :
        k \in { i \in 1..Len(aggCalls) :
                  /\ aggCalls[i].tag \in {"None", "Some"}
                  /\ \A j \in 1..(i - 1) : aggCalls[j].tag # "Some" } }

\* C3 as amended: the set bits of pk_bit_vec are exactly the bits of the
\* authorities whose votes were accepted up to the emission of the certificate,
\* one bit per authority (its index in sorted_keys); these authorities are
\* among the recorded contributors.
C3_BitsEqualIncorporated ==
    /\ SignersOf(committee, agg.pk_bit_vec) = Incorporated
    /\ PopCount(agg.pk_bit_vec) = Cardinality(Incorporated)
    /\ Incorporated \subseteq agg.used
    /\ Cardinality({ signer_bit(committee, a) : a \in Authorities }) = Cardinality(Authorities)

\* Two votes made the certificate; a third authority was recorded afterwards.
C3_Witness ==
    /\ agg.is_qc_sent
    /\ Cardinality(Incorporated) = 2
    /\ PopCount(agg.pk_bit_vec) = 2
    /\ Cardinality(agg.used) = 3

\* C4: append with a vote of an authority that already contributed returns
\* AuthorityReuse and leaves the whole aggregator (weight, used, votes, bitmap,
\* aggregate signature, emitted flag) as it was; no other call returns it.
C4_AuthorityReuseLeavesAggregator ==
    Len(aggCalls) > 0 =>
        /\ LastCall.vote.author \in aggPre.used =>
              /\ LastCall.tag = "AuthorityReuse"
              /\ agg = aggPre
        /\ LastCall.tag = "AuthorityReuse" => LastCall.vote.author \in aggPre.used

\* A second vote of an authority, after another authority voted in between.
C4_Witness ==
    /\ Len(aggCalls) = 3
    /\ LastCall.tag = "AuthorityReuse"
    /\ LastCall.vote.author = aggCalls[1].vote.author
    /\ aggCalls[2].tag = "None"
    /\ agg.pk_bit_vec # 0

\* C5: a vote whose signature verification fails is rejected without effect:
\* weight, contributor set, bitmap and aggregate signature are as before.
C5_InvalidVoteWithoutEffect ==
    (Len(aggCalls) > 0 /\ LastCall.tag = "InvalidSignature") =>
        /\ agg.weight = aggPre.weight
        /\ agg.used = aggPre.used
        /\ agg.pk_bit_vec = aggPre.pk_bit_vec
        /\ agg.agg_sign = aggPre.agg_sign

----------------------------------------------------------------------------
(* Claims about Core, checked under Spec.                                  *)

\* The effects of one step of the Core task: all those of the step that takes
\* an event, those added to the trace by a step that goes on after an await.
NewEffects ==
    IF events' = events + 1 THEN trace' ELSE SubSeq(trace', Len(trace) + 1, Len(trace'))

\* The step is the one in which the handler goes on after its await at line
\* `at` of core.rs.
GoesOnAfter(at) == alive /\ awaiting.at = at /\ awaiting' # awaiting

\* C6: Core never makes votes for two distinct header ids of the same author
\* and the same round.
C6_NoDoubleVoting ==
    \A v, w \in votes_created :
        (v.origin = w.origin /\ v.round = w.round) => v.id = w.id

\* C7: for every header id, Core assembles and broadcasts a certificate at
\* most once.
C7_CertificateBroadcastAtMostOnce ==
    \A id \in DOMAIN cert_broadcasts : cert_broadcasts[id] <= 1

\* C8: a certificate asserted by a peer is sent back to the loop as a
\* VerifiedCertificate only if its verification succeeded.
C8_OnlyVerifiedCertificatesReinjected ==
    \A certificate \in BagToSet(rx_verified) : Certificate_verify(certificate, committee)

\* C9: whenever Core writes a header or certificate to the store, makes a vote
\* or sends a certificate to the consensus layer, the round of that message is
\* at least the gc_round of that moment.
C9_EffectsAtOrAboveGcRound ==
    [][ \A i \in 1..Len(NewEffects) :
          NewEffects[i].op \in {"store_write", "vote_new", "consensus"} =>
              NewEffects[i].round >= gc_round ]_vars

\* C10: a Header message of a peer with round < gc_round gets HeaderTooOld and
\* its handling has no effect: nothing is written to the store, no vote is
\* made or sent, nothing goes to the pool or to the consensus layer, the
\* in-flight maps are unchanged and no cancel handler is added (the entries
\* of cancel_handlers are those the cleanup ending the iteration retains); a
\* header with round = gc_round is not rejected as too old.
C10_TooOldHeaderRejected ==
    [][ (events' = events + 1 /\ last'.kind = "Header") =>
          /\ last'.round < gc_round =>
                /\ last'.result = "HeaderTooOld"
                /\ trace' = <<>>
                /\ store' = store
                /\ votes_created' = votes_created
                /\ processing_headers' = processing_headers
                /\ processing_vote_aggregators' = processing_vote_aggregators
                /\ tx_consensus' = tx_consensus
                /\ pool' = pool
                /\ cancel_handlers' = Retain(cancel_handlers, gc_round')
                /\ alive'
          /\ last'.round = gc_round => last'.result # "HeaderTooOld"
          /\ last'.result = "HeaderTooOld" => last'.round < gc_round ]_vars

\* A header of round 0 rejected by a Core whose gc_round is 1 and that has
\* written to the store before.
C10_Witness ==
    /\ last.kind = "Header"
    /\ last.result = "HeaderTooOld"
    /\ last.round < gc_round
    /\ store # EmptyMap

\* C11: a Certificate message of a peer with round < gc_round gets
\* CertificateTooOld: it is not handed to the verification pool, nothing is
\* written to the store or sent to the consensus layer, and no
\* VerifiedCertificate comes back for it (the pool sends back only what it was
\* handed); a certificate with round >= gc_round, round = gc_round included,
\* is handed to the pool.
C11_TooOldCertificateRejected ==
    [][ /\ (events' = events + 1 /\ last'.kind = "Certificate") =>
              /\ last'.round < gc_round =>
                    /\ last'.result = "CertificateTooOld"
                    /\ trace' = <<>>
                    /\ pool' = pool
                    /\ rx_verified' = rx_verified
                    /\ store' = store
                    /\ tx_consensus' = tx_consensus
                    /\ blocked' = NoCert
                    /\ processing_headers' = processing_headers
                    /\ processing_vote_aggregators' = processing_vote_aggregators
                    /\ cancel_handlers' = Retain(cancel_handlers, gc_round')
                    /\ alive'
              /\ last'.round >= gc_round =>
                    /\ last'.result = "Ok"
                    /\ \E certificate \in PeerCertificates :
                          /\ certificate.round = last'.round
                          /\ pool' = BagAdd(pool, certificate)
        /\ rx_verified' # rx_verified =>
              \/ \E certificate \in BagToSet(pool) :
                    /\ pool' = BagRemove(pool, certificate)
                    /\ rx_verified' = BagAdd(rx_verified, certificate)
              \/ \E certificate \in BagToSet(rx_verified) :
                    rx_verified' = BagRemove(rx_verified, certificate) ]_vars

\* A certificate of round 0 rejected by a Core whose gc_round is above 0,
\* with nothing in the pool, in the store or on its way back.
C11_Witness ==
    /\ last.kind = "Certificate"
    /\ last.result = "CertificateTooOld"
    /\ last.round < gc_round
    /\ pool = EmptyBag
    /\ rx_verified = EmptyBag
    /\ store = EmptyMap

\* C12: a Vote message with round < gc_round gets VoteTooOld and changes
\* nothing: it is appended to no aggregator and no certificate comes of it.
C12_TooOldVoteRejected ==
    [][ (events' = events + 1 /\ last'.kind = "Vote" /\ last'.round < gc_round) =>
          /\ last'.result = "VoteTooOld"
          /\ processing_vote_aggregators' = processing_vote_aggregators
          /\ processing_headers' = processing_headers
          /\ cert_broadcasts' = cert_broadcasts
          /\ trace' = <<>> ]_vars

\* C13: no sequence of messages makes the Core task panic: the task is alive
\* in every reachable state (the store of the model never fails).
C13_NoMessagePanics == alive

\* C14: when a header of this primary that is still in flight, and for which
\* this primary's own vote is already counted, is processed again (sent again
\* by the Proposer or sent back by a peer), Core keeps running, the aggregator
\* of the header stays as it was (the own vote counts once) and no
\* certificate comes of it.
C14_DuplicateOwnHeaderTolerated ==
    [][ \A id \in DOMAIN processing_vote_aggregators :
          ( /\ GoesOnAfter(158)
            /\ last.kind \in {"Header", "OwnHeader"}
            /\ awaiting.vote.id = id
            /\ awaiting.vote.origin = Name
            /\ id \in DOMAIN processing_headers
            /\ Name \in processing_vote_aggregators[id].used )
          => /\ alive'
             /\ id \in DOMAIN processing_vote_aggregators'
             /\ processing_vote_aggregators'[id] = processing_vote_aggregators[id]
             /\ cert_broadcasts' = cert_broadcasts ]_vars

\* The step takes the certificate as a VerifiedCertificate or a loopback
\* certificate: process_certificate writes it to the store and awaits the write.
ProcessedCertificate(certificate) ==
    /\ events' = events + 1
    /\ last'.kind \in {"VerifiedCertificate", "LoopbackCertificate"}
    /\ trace' = <<Effect("store_write", Certificate_digest(certificate), certificate.round, "store")>>
    /\ awaiting'.at = 243
    /\ awaiting'.certificate = certificate
    /\ Certificate_digest(certificate) \in DOMAIN store'
    /\ store'[Certificate_digest(certificate)] = certificate

\* One send of the certificate to the consensus layer, after the effects
\* `before`: the certificate is in the channel, or the channel is closed and
\* the failure logged, or the channel is full and Core awaits the send.
OneSendAttempt(certificate, before) ==
    LET e == Effect("consensus", certificate.id, certificate.round, "consensus")
        f == Effect("consensus_failed", certificate.id, certificate.round, "consensus")
    IN \/ /\ ~sink_closed /\ ~sink_full(CoreState)
          /\ trace' = Append(before, e)
          /\ tx_consensus' = BagAdd(tx_consensus, certificate)
          /\ blocked' = NoCert
       \/ /\ sink_closed
          /\ trace' = Append(before, f)
          /\ tx_consensus' = tx_consensus
          /\ blocked' = NoCert
       \/ /\ ~sink_closed /\ sink_full(CoreState)
          /\ trace' = before
          /\ tx_consensus' = tx_consensus
          /\ blocked' = certificate

\* C15: processing (as VerifiedCertificate or loopback certificate) a
\* certificate that the store already holds at its digest raises no error,
\* leaves the store as it was after the first processing, and sends the
\* certificate to the consensus layer once more (once per processing): the
\* write leaves the store as it was, and when the write has completed the
\* certificate is sent once, whatever the channel holds.
C15_SameCertificateTwice ==
    [][ \A certificate \in PeerCertificates :
          /\ ( /\ ProcessedCertificate(certificate)
                /\ Certificate_digest(certificate) \in DOMAIN store
                /\ store[Certificate_digest(certificate)] = certificate )
              => /\ store' = store
                 /\ last'.result = "Ok"
                 /\ alive'
          /\ ( /\ GoesOnAfter(243)
                /\ last.kind \in {"VerifiedCertificate", "LoopbackCertificate"}
                /\ awaiting.certificate = certificate )
              => /\ store' = store
                 /\ store[Certificate_digest(certificate)] = certificate
                 /\ last'.result = "Ok"
                 /\ alive'
                 /\ awaiting' = NoWait
                 /\ OneSendAttempt(certificate, trace) ]_vars

\* The second processing of a certificate: the store holds it once, the
\* first copy is in the channel to the consensus layer and the second one is
\* being sent.
C15_Witness ==
    /\ last.kind \in {"VerifiedCertificate", "LoopbackCertificate"}
    /\ last.result = "Ok"
    /\ events = 2
    /\ blocked # NoCert
    /\ blocked \in BagToSet(tx_consensus)
    /\ store = [k \in {Certificate_digest(blocked)} |-> blocked]

\* C16: for a Vote message whose id is the id of an in-flight header, the
\* sanitization is Ok exactly when the vote's id, origin and round equal the
\* header's id, author and round, and UnexpectedVote otherwise; a vote that
\* got UnexpectedVote leaves the aggregators (and everything else) unchanged.
C16_VoteMustMatchHeader ==
    [][ /\ \A vote \in PeerVotes :
              vote.id \in DOMAIN processing_headers =>
                  LET header == processing_headers[vote.id] IN
                  IF vote.id = header.id /\ vote.origin = header.author
                     /\ vote.round = header.round
                  THEN sanitize_vote(CoreState, vote) = "Ok"
                  ELSE sanitize_vote(CoreState, vote) = "UnexpectedVote"
        /\ (events' = events + 1 /\ last'.kind = "Vote" /\ last'.result = "UnexpectedVote") =>
              /\ \E vote \in PeerVotes :
                    /\ vote.round = last'.round
                    /\ vote.id \in DOMAIN processing_headers
                    /\ \/ vote.origin # processing_headers[vote.id].author
                       \/ vote.round # processing_headers[vote.id].round
              /\ processing_vote_aggregators' = processing_vote_aggregators
              /\ processing_headers' = processing_headers
              /\ store' = store
              /\ cert_broadcasts' = cert_broadcasts
              /\ tx_consensus' = tx_consensus
              /\ trace' = <<>>
              /\ alive' ]_vars

\* A vote rejected with UnexpectedVote while a header of this primary is in
\* flight with this primary's own vote in its aggregator.
C16_Witness ==
    /\ last.kind = "Vote"
    /\ last.result = "UnexpectedVote"
    /\ \E id \in DOMAIN processing_vote_aggregators :
          /\ id \in DOMAIN processing_headers
          /\ processing_vote_aggregators[id].used = {Name}
          /\ processing_vote_aggregators[id].weight = stake(committee, Name)

\* C17: a Vote whose id is the id of no in-flight header passes the
\* sanitization and its processing returns Ok and changes nothing (at every
\* select of the loop, for every such vote): in-flight
\* maps, aggregators, store and cancel handlers are as before and there is no
\* effect (nothing broadcast, nothing sent to the consensus layer).
C17_UntrackedVoteIsNoOp ==
    [][ /\ LET c == CoreState IN
           (alive /\ returned(c)) =>
               \A vote \in { v \in PeerVotes : v.id \notin DOMAIN processing_headers } :
                   /\ sanitize_vote(c, vote) = "Ok"
                   /\ process_vote(c, vote) = c
        /\ ( /\ events' = events + 1
             /\ last'.kind = "Vote"
             /\ processing_headers = EmptyMap ) =>
              /\ last'.result = "Ok"
              /\ trace' = <<>>
              /\ processing_headers' = processing_headers
              /\ processing_vote_aggregators' = processing_vote_aggregators
              /\ store' = store
              /\ cancel_handlers' = Retain(cancel_handlers, gc_round')
              /\ tx_consensus' = tx_consensus
              /\ cert_broadcasts' = cert_broadcasts
              /\ alive' ]_vars

\* A vote that arrived after a header was certified and evicted: nothing is
\* in flight and the vote had no effect.
C17_Witness ==
    /\ last.kind = "Vote"
    /\ last.result = "Ok"
    /\ trace = <<>>
    /\ processing_headers = EmptyMap
    /\ processing_vote_aggregators = EmptyMap
    /\ cert_broadcasts # EmptyMap

\* The positions of the effects of kind op in a sequence of effects.
EffectsOf(t, op) == { i \in 1..Len(t) : t[i].op = op }

\* C18: when the aggregator of an in-flight header yields a certificate, the
\* handling of that event goes on with, in this order and once each: the
\* broadcast of the certificate to all other authorities, the removal of the
\* header and its aggregator from the in-flight maps, the write of the
\* certificate to the store, and its send to the consensus layer (which, on a
\* full channel, is awaited and completes exactly once).
C18_CertificateStepsInOrder ==
    [][ /\ \A id \in DOMAIN cert_broadcasts' :
              Get(cert_broadcasts, id, 0) # cert_broadcasts'[id] =>
                  /\ cert_broadcasts'[id] = Get(cert_broadcasts, id, 0) + 1
                  /\ (events' = events + 1 /\ last'.kind = "Vote") \/ GoesOnAfter(158)
                  /\ id \in DOMAIN processing_headers
                  /\ awaiting'.at = 206
                  /\ awaiting'.certificate.id = id
                  /\ awaiting'.certificate.round = processing_headers[id].round
                  /\ NewEffects = <<Effect("broadcast_Certificate", id, awaiting'.certificate.round,
                                           others_primaries(committee, Name))>>
                  /\ processing_headers' = processing_headers
                  /\ DOMAIN processing_vote_aggregators' = DOMAIN processing_vote_aggregators
                  /\ store' = store
                  /\ tx_consensus' = tx_consensus
        /\ GoesOnAfter(206) =>
              LET certificate == awaiting.certificate IN
              /\ trace[Len(trace)].op = "broadcast_Certificate"
              /\ trace[Len(trace)].id = certificate.id
              /\ NewEffects = <<Effect("evict", certificate.id, certificate.round, "in_flight"),
                                Effect("store_write", Certificate_digest(certificate),
                                       certificate.round, "store")>>
              /\ certificate.id \in DOMAIN processing_headers
              /\ processing_headers' = Remove(processing_headers, certificate.id)
              /\ processing_vote_aggregators' = Remove(processing_vote_aggregators, certificate.id)
              /\ store' = Put(store, Certificate_digest(certificate), certificate)
              /\ cert_broadcasts' = cert_broadcasts
              /\ tx_consensus' = tx_consensus
              /\ awaiting'.at = 243
              /\ awaiting'.certificate = certificate
        /\ (GoesOnAfter(243) /\ EffectsOf(trace, "broadcast_Certificate") # {}) =>
              LET certificate == awaiting.certificate IN
              /\ trace[Len(trace)] = Effect("store_write", Certificate_digest(certificate),
                                            certificate.round, "store")
              /\ trace[Len(trace) - 1].op = "evict"
              /\ trace[Len(trace) - 2].op = "broadcast_Certificate"
              /\ store' = store
              /\ cert_broadcasts' = cert_broadcasts
              /\ processing_headers' = processing_headers
              /\ awaiting' = NoWait
              /\ OneSendAttempt(certificate, trace)
        /\ (blocked # NoCert /\ blocked' # blocked) =>
              /\ blocked' = NoCert
              /\ store' = store
              /\ \/ /\ ~sink_closed
                    /\ tx_consensus' = BagAdd(tx_consensus, blocked)
                    /\ trace' = Append(trace, Effect("consensus", blocked.id, blocked.round, "consensus"))
                 \/ /\ sink_closed
                    /\ tx_consensus' = tx_consensus
                    /\ trace' = Append(trace, Effect("consensus_failed", blocked.id,
                                                     blocked.round, "consensus"))
        /\ Cardinality(EffectsOf(trace', "broadcast_Certificate")) <= 1
        /\ Cardinality(EffectsOf(trace', "evict")) <= 1
        /\ Cardinality(EffectsOf(trace', "consensus") \cup EffectsOf(trace', "consensus_failed")) <= 1 ]_vars

\* The vote of a peer completed the quorum: certificate broadcast, header
\* evicted, certificate stored and in the channel to the consensus layer.
C18_Witness ==
    /\ last.kind = "Vote"
    /\ Len(trace) = 4
    /\ trace[1].op = "broadcast_Certificate"
    /\ trace[2].op = "evict"
    /\ trace[3].op = "store_write"
    /\ trace[4].op = "consensus"
    /\ cert_broadcasts # EmptyMap
    /\ processing_headers = EmptyMap
    /\ tx_consensus # EmptyBag

\* C19: every send of a certificate to the consensus layer comes right after
\* the write of that certificate to the store at its digest, in the same
\* event; a send that fails is logged: the event still ends with Ok, the
\* certificate stays in the store and there is no second send.
C19_StoredBeforeForwarded ==
    /\ \A i \in EffectsOf(trace, "consensus") \cup EffectsOf(trace, "consensus_failed") :
          /\ i > 1
          /\ trace[i - 1].op = "store_write"
          /\ trace[i - 1].round = trace[i].round
          /\ trace[i - 1].id \in DOMAIN store
          /\ store[trace[i - 1].id].id = trace[i].id
          /\ trace[i - 1].id = Certificate_digest(store[trace[i - 1].id])
          /\ Cardinality(EffectsOf(trace, "consensus") \cup EffectsOf(trace, "consensus_failed")) = 1
          /\ trace[i].op = "consensus_failed" =>
                /\ last.result = "Ok"
                /\ alive
                /\ blocked = NoCert
    /\ blocked # NoCert =>
          /\ Certificate_digest(blocked) \in DOMAIN store
          /\ store[Certificate_digest(blocked)] = blocked

\* A certificate processed while the channel to the consensus layer is
\* closed: stored, the send failed, the event ended with Ok.
C19_Witness ==
    /\ sink_closed
    /\ alive
    /\ last.result = "Ok"
    /\ EffectsOf(trace, "consensus_failed") # {}
    /\ \E i \in EffectsOf(trace, "consensus_failed") :
          /\ trace[i - 1].id \in DOMAIN store
          /\ store[trace[i - 1].id].id = trace[i].id

\* C20: the dispatch loop of Core never waits for the channel to the
\* consensus layer: there is no certificate whose send Core awaits.
C20_NeverBlocksOnSink == blocked = NoCert

\* The state of Core that only the dispatch loop may change.
CoreMutable ==
    <<processing_headers, processing_vote_aggregators, cancel_handlers, last_voted,
      gc_round, store, trace, votes_created, cert_broadcasts, last, alive, awaiting>>

\* C21: every change of the state of Core (in-flight maps, aggregators,
\* cancel handlers, gc_round, store, sends to the consensus layer) is made by
\* the dispatch loop handling one event: the step dequeues an event while no
\* other event is being handled, or the handler of the event goes on after
\* one of its awaits, or it is the end of the event whose send to the
\* consensus layer was awaited; no event is dequeued while another is
\* unfinished. A step of the verification pool only takes one certificate it
\* was handed and enqueues it as one VerifiedCertificate.
C21_SingleWriter ==
    [][ /\ events' # events =>
              /\ events' = events + 1
              /\ alive
              /\ blocked = NoCert
              /\ awaiting = NoWait
        /\ ( \/ CoreMutable' # CoreMutable
             \/ BagCardinality(tx_consensus') > BagCardinality(tx_consensus)
             \/ blocked' # blocked
             \/ BagCardinality(pool') > BagCardinality(pool) ) =>
              \/ events' = events + 1
              \/ blocked # NoCert /\ blocked' = NoCert /\ events' = events
              \/ awaiting # NoWait /\ GoesOnAfter(awaiting.at) /\ events' = events
        /\ awaiting # NoWait => blocked = NoCert
        /\ BagCardinality(pool') < BagCardinality(pool) =>
              /\ \E certificate \in BagToSet(pool) :
                    /\ pool' = BagRemove(pool, certificate)
                    /\ rx_verified' = BagAdd(rx_verified, certificate)
              /\ CoreMutable' = CoreMutable
              /\ UNCHANGED <<tx_consensus, blocked, events, consensus_round, sink_closed>>
        /\ BagCardinality(rx_verified') > BagCardinality(rx_verified) =>
              BagCardinality(pool') < BagCardinality(pool) ]_vars

\* The own header was handled to its end in one event, the own vote and the
\* own certificate included, while a certificate verified by the pool waits
\* in the queue.
C21_Witness ==
    /\ last.kind = "OwnHeader"
    /\ EffectsOf(trace, "vote_new") # {}
    /\ EffectsOf(trace, "broadcast_Certificate") # {}
    /\ EffectsOf(trace, "consensus") # {}
    /\ rx_verified # EmptyBag
    /\ blocked = NoCert

\* The step is the one in which the handler of an event returns and the
\* iteration of the loop ends.
IterationEnds ==
    /\ alive' /\ blocked' = NoCert /\ awaiting' = NoWait
    /\ \/ events' = events + 1
       \/ blocked # NoCert /\ blocked' = NoCert
       \/ awaiting # NoWait /\ GoesOnAfter(awaiting.at)

\* C22: the cleanup that ends each handled event: if consensus_round >
\* gc_depth, gc_round becomes consensus_round - gc_depth, every entry of
\* cancel_handlers and last_voted with a round below it is removed and every
\* entry with a round at or above it is kept; otherwise gc_round and both
\* maps stay. At every select point no key of the two maps is below gc_round.
C22_GarbageCollection ==
    [][ /\ IterationEnds =>
              \* the handler of the vote sent to the author of a header is
              \* kept (core.rs:174-177) in the step that ends the iteration
              LET added == IF GoesOnAfter(173) THEN {awaiting.header.round} ELSE {}
                  before == DOMAIN cancel_handlers \cup added
              IN IF consensus_round > gc_depth
                 THEN /\ gc_round' = consensus_round - gc_depth
                      /\ DOMAIN cancel_handlers' = { k \in before : k >= gc_round' }
                      /\ DOMAIN last_voted' = { k \in DOMAIN last_voted : k >= gc_round' }
                      /\ \A k \in DOMAIN cancel_handlers' \cap DOMAIN cancel_handlers :
                            SubSeq(cancel_handlers'[k], 1, Len(cancel_handlers[k])) = cancel_handlers[k]
                 ELSE /\ gc_round' = gc_round
                      /\ DOMAIN cancel_handlers' = before
                      /\ last_voted' = last_voted
                      /\ \A k \in DOMAIN cancel_handlers :
                            SubSeq(cancel_handlers'[k], 1, Len(cancel_handlers[k])) = cancel_handlers[k]
        /\ (alive' /\ blocked' = NoCert /\ awaiting' = NoWait) =>
              \A k \in DOMAIN cancel_handlers' \cup DOMAIN last_voted' : k >= gc_round'
        /\ ~IterationEnds =>
              /\ gc_round' = gc_round
              /\ last_voted' = last_voted
              /\ DOMAIN cancel_handlers \subseteq DOMAIN cancel_handlers' ]_vars

\* The handles of a vote sent for a header of round 0 were removed when
\* gc_round became 1; those stored under round 1 in the same event are kept.
C22_Witness ==
    /\ gc_round = 1
    /\ DOMAIN cancel_handlers = {1}
    /\ \E v \in votes_created : v.round = 0 /\ v.origin # Name
    /\ alive
    /\ blocked = NoCert
    /\ awaiting = NoWait

----------------------------------------------------------------------------
(* Claims about Synchronizer::missing_payload.                             *)

\* The (digest, worker_id) pairs of a payload, of a map of missing batches.
PairsOf(payload) == { <<d, payload[d]>> : d \in DOMAIN payload }

\* A call of missing_payload begins in this step.
CallBegins == sync_calls' = sync_calls + 1

\* A call of missing_payload returns in this step.
Returned == sync_call'.pc = "idle" /\ (sync_call.pc # "idle" \/ CallBegins)

\* The call in progress is served one read of the store in this step.
ReadsPair ==
    /\ sync_call.pc = "reading"
    /\ sync_call'.pc = "reading"
    /\ sync_call'.todo # sync_call.todo

\* A call for a header of a peer reads every pair of the payload once; each
\* read adds its pair to the missing ones exactly when the store holds no
\* value under digest || worker_id at the time of the read.
ReadServed ==
    /\ CallBegins /\ ~Returned =>
          /\ { sync_call'.todo[i] : i \in 1..Len(sync_call'.todo) } = PairsOf(sync_call'.header.payload)
          /\ Len(sync_call'.todo) = Cardinality(DOMAIN sync_call'.header.payload)
          /\ PairsOf(sync_call'.missing) = {}
    /\ ReadsPair =>
          LET pair == Head(sync_call.todo) IN
          /\ sync_call'.todo = Tail(sync_call.todo)
          /\ sync_call'.header = sync_call.header
          /\ PairsOf(sync_call'.missing) =
                PairsOf(sync_call.missing) \cup (IF pair \notin DOMAIN store THEN {pair} ELSE {})
    /\ Returned /\ ~CallBegins =>
          /\ sync_call.todo = <<>>
          /\ sync_last'.header = sync_call.header

\* C23 as stated: missing_payload returns false for every header of this
\* authority; for a header of another authority it returns true exactly when
\* some (digest, worker_id) pair of the payload has its key absent from the
\* store (the store as it is when the call returns).
C23_ResultMatchesStore ==
    [][ Returned =>
          LET header == sync_last'.header IN
          sync_last'.result =
              (header.author # Name /\ \E pair \in PairsOf(header.payload) : pair \notin DOMAIN store) ]_vars

\* C23: missing_payload returns false for every header of this authority,
\* whatever the payload and the store hold; for a header of another authority
\* it reads the store once for each pair of the payload and returns true
\* exactly when some read found the key digest || worker_id absent from the
\* store at the time of that read.
C23_MissingPayloadResult ==
    [][ /\ ReadServed
        /\ Returned =>
              sync_last'.result =
                  (sync_last'.header.author # Name /\ PairsOf(sync_call.missing) # {}) ]_vars

\* A call for a header of a peer returned true, and the store holds every
\* batch of the payload: the batch found missing arrived after its read.
C23_Witness ==
    /\ sync_calls > 0
    /\ sync_call.pc = "idle"
    /\ sync_last.header.author # Name
    /\ sync_last.result = TRUE
    /\ PairsOf(sync_last.header.payload) \subseteq DOMAIN store

\* C24 as stated: a call that returns true sends exactly one request to the
\* waiter, carrying the header and exactly the pairs of the payload absent
\* from the store (the store as it is when the request is sent); a call that
\* returns false sends nothing; no call writes to the store.
C24_RequestMatchesStore ==
    [][ Returned =>
          LET header == sync_last'.header IN
          /\ store' = store
          /\ IF sync_last'.result
             THEN /\ Len(tx_header_waiter') = Len(tx_header_waiter) + 1
                  /\ SubSeq(tx_header_waiter', 1, Len(tx_header_waiter)) = tx_header_waiter
                  /\ LET request == tx_header_waiter'[Len(tx_header_waiter')] IN
                     /\ request.header = header
                     /\ PairsOf(request.missing) =
                           { pair \in PairsOf(header.payload) : pair \notin DOMAIN store }
             ELSE tx_header_waiter' = tx_header_waiter ]_vars

\* A step of missing_payload: the call begins, is served a read, or goes on
\* after its loop.
SyncStep == sync_call' # sync_call \/ CallBegins

\* C24: a call that returns true has sent exactly one request to the waiter,
\* in the step it returns in, carrying the header and exactly the pairs of the
\* payload whose read found no value in the store; a call that returns false
\* sends nothing, and no step of a call before its return does; no step of a
\* call writes to the store.
C24_OneRequestWithMissingPairs ==
    [][ /\ ReadServed
        /\ SyncStep => store' = store
        /\ SyncStep /\ ~(Returned /\ sync_last'.result) => tx_header_waiter' = tx_header_waiter
        /\ Returned /\ sync_last'.result =>
              /\ Len(tx_header_waiter') = Len(tx_header_waiter) + 1
              /\ SubSeq(tx_header_waiter', 1, Len(tx_header_waiter)) = tx_header_waiter
              /\ LET request == tx_header_waiter'[Len(tx_header_waiter')] IN
                 /\ request.header = sync_last'.header
                 /\ PairsOf(request.missing) = PairsOf(sync_call.missing) ]_vars

\* A request is in the channel for a payload of two digests, naming one of
\* them, and the store holds the batch of the other under the worker id of
\* the payload.
C24_Witness ==
    /\ sync_last.result = TRUE
    /\ sync_call.pc = "idle"
    /\ Len(tx_header_waiter) > 0
    /\ LET request == tx_header_waiter[Len(tx_header_waiter)] IN
       /\ request.header = sync_last.header
       /\ DOMAIN request.header.payload = Digests
       /\ Cardinality(DOMAIN request.missing) = 1
       /\ \E d \in Digests \ DOMAIN request.missing :
             <<d, request.header.payload[d]>> \in DOMAIN store

----------------------------------------------------------------------------
(* Claims about the Proposer.                                              *)

\* A step that is one pass through the top of the Proposer loop.
ProposerPass == pc = "check" /\ pc' # "check"

\* A step in which make_header is called: a header is created.
Trigger == pending_header = NoHeader /\ pending_header' # NoHeader

\* A step in which make_header returns: the header is in the channel to Core.
MakeHeaderReturns == pc = "make_header" /\ pc' = "select"

\* C25: at each iteration of the loop of the Proposer a header is made if
\* and only if payload_size >= header_size, or the timer has elapsed and
\* payload_size > 0: the size alone is enough, and an elapsed timer with an
\* empty buffer makes no header.
C25_ProposerTrigger ==
    [][ /\ ProposerPass =>
              IF payload_size >= header_size \/ (timer_elapsed /\ payload_size > 0)
              THEN Trigger /\ pc' = "make_header"
              ELSE ~Trigger /\ pc' = "select" /\ emitted' = emitted
        /\ Trigger => ProposerPass
        /\ emitted' # emitted => emitted' = Append(emitted, pending_header) ]_vars

\* A header was made on the size alone, the timer not elapsed; and the
\* Proposer passed the top of the loop with the timer elapsed and nothing
\* buffered, and made no header.
C25_Witness ==
    /\ Len(emitted) = 1
    /\ SumLen(emitted[1].payload) >= header_size
    /\ pending_header = NoHeader
    /\ pc = "select"
    /\ timer_elapsed
    /\ payload_size = 0
    /\ Len(batches) = MaxBatches

\* C26 as stated: on every trigger the payload of the new header is the
\* whole pending buffer in arrival order; right after, the buffer is empty,
\* payload_size is 0 and the timer is not elapsed.
C26_ResetOnTrigger ==
    [][ Trigger =>
          /\ pending_header'.payload = txns
          /\ txns' = <<>>
          /\ payload_size' = 0
          /\ timer_elapsed' = FALSE ]_vars

\* C26: on every trigger the payload of the new header is the whole pending
\* buffer in arrival order and the buffer is empty at once; payload_size is
\* set to 0 and the timer rescheduled (not elapsed) in the step make_header
\* returns in, when the header is in the channel to Core; until then the
\* Proposer takes no batch, the buffer stays empty and payload_size keeps
\* its value.
C26_DrainAndReset ==
    [][ /\ Trigger =>
              /\ pending_header'.payload = txns
              /\ pending_header'.author = Name
              /\ txns' = <<>>
              /\ payload_size' = payload_size
        /\ pc = "make_header" /\ pc' = "make_header" =>
              UNCHANGED <<txns, payload_size, pending_header, emitted, batches>>
        /\ MakeHeaderReturns =>
              /\ tx_core' = Append(tx_core, pending_header)
              /\ emitted' = Append(emitted, pending_header)
              /\ txns' = <<>> /\ txns = <<>>
              /\ payload_size' = 0
              /\ timer_elapsed' = FALSE ]_vars

\* A header carrying two batches in their order of arrival was made and
\* make_header has returned: the header is in the channel to Core and the
\* Proposer is reset.
C26_Witness ==
    /\ pc = "select"
    /\ Len(batches) = 2
    /\ batches[1] # <<>> /\ batches[2] # <<>>
    /\ batches[1] # batches[2]
    /\ Len(emitted) = 1
    /\ emitted[1].payload = batches[1] \o batches[2]
    /\ tx_core = emitted
    /\ pending_header = NoHeader
    /\ txns = <<>>
    /\ payload_size = 0
    /\ ~timer_elapsed

----------------------------------------------------------------------------
(* Claims about the certificate built by VotesAggregator::append.          *)

\* The arrival orders of a set of votes.
ArrivalOrders(votes) ==
    { o \in [1..Cardinality(votes) -> votes] :
        \A i, j \in 1..Cardinality(votes) : o[i] = o[j] => i = j }

\* The result of the last of the append calls made in this order on an
\* aggregator.
RECURSIVE AppendInOrder(_, _)
AppendInOrder(self, order) ==
    IF Len(order) = 1
    THEN append(self, order[1], committee, AggHeader)
    ELSE AppendInOrder(append(self, Head(order), committee, AggHeader).agg, Tail(order))

\* The votes given to the aggregator so far.
CalledVotes == { aggCalls[i].vote : i \in 1..Len(aggCalls) }

\* All the calls so far carried valid votes, of pairwise distinct authorities.
AllValidDistinct ==
    \A i \in 1..Len(aggCalls) :
        /\ Vote_verify(aggCalls[i].vote, committee)
        /\ \A j \in 1..(i - 1) : aggCalls[j].vote.author # aggCalls[i].vote.author

\* C27: aggregation does not depend on the order of arrival: when a set of
\* valid votes of distinct authorities arrived in an order that emitted the
\* certificate on the last vote, every other order of the same votes that
\* emits the certificate on its last vote emits an equal certificate (id,
\* round, origin, bitmap and aggregate signature).
C27_OrderIndependent ==
    (Len(aggCalls) > 0 /\ AllValidDistinct /\ LastCall.tag = "Some") =>
        \A order \in ArrivalOrders(CalledVotes) :
            LET r == AppendInOrder(VotesAggregator_new, order) IN
            r.tag = "Some" => r.cert = LastCall.cert

\* Three valid votes of stake 1 against a threshold of 3: each of the six
\* orders emits the certificate on its last vote.
C27_Witness ==
    /\ Len(aggCalls) = 3
    /\ AllValidDistinct
    /\ LastCall.tag = "Some"
    /\ \A order \in ArrivalOrders(CalledVotes) :
          AppendInOrder(VotesAggregator_new, order).tag = "Some"

\* The shares of the authorities a bitmap names, combined.
SharesOf(bitmap) ==
    SetToBag({ MkShare(a, AggHeader.id, TRUE) : a \in SignersOf(committee, bitmap) })

\* C30: a certificate returned by append has the id, the round and the
\* author of the header, and its aggregate signature combines exactly the
\* shares of the authorities whose bits are set in its bitmap (the share
\* itself for one contributor), whatever calls failed before.
C30_CertificateFields ==
    \A k \in 1..Len(aggCalls) :
        aggCalls[k].tag = "Some" =>
            LET cert == aggCalls[k].cert IN
            /\ cert.id = AggHeader.id
            /\ cert.round = AggHeader.round
            /\ cert.origin = AggHeader.author
            /\ cert.votes[2] = SharesOf(cert.votes[1])
            /\ Cardinality(SignersOf(committee, cert.votes[1])) = 1 =>
                  cert.votes[2] = ShareAsAggregate(aggCalls[k].vote.signature)

\* A certificate of one contributor returned after a call that failed on an
\* invalid signature and a call that failed on a repeated authority.
C30_Witness ==
    /\ Len(aggCalls) = 3
    /\ aggCalls[1].tag = "InvalidSignature"
    /\ aggCalls[2].tag = "AuthorityReuse"
    /\ aggCalls[3].tag = "Some"
    /\ PopCount(aggCalls[3].cert.votes[1]) = 1

----------------------------------------------------------------------------
(* Claims about Core::process_header and Core::process_own_header.         *)

\* The positions of the effects of one kind in a trace.
PositionsOf(t, op) == { i \in 1..Len(t) : t[i].op = op }

\* The step is the one in which process_header is entered: the handler comes
\* to the await of the write of the header.
HeaderProcessed == awaiting'.at = 153 /\ awaiting' # awaiting

\* What C28 says of the routing of the vote, but for the network in the case
\* of a header of this authority: the header is stored under its id; when
\* the write has completed exactly one vote is made; when the vote is made,
\* the vote for a header of this authority is given to process_vote and is
\* not sent, the vote for a header of a peer goes to its author alone, in one
\* send, and no aggregator changes; when the send has completed its handle
\* is kept under the round of the header (unless the cleanup that ends the
\* event drops that round).
VoteRouted ==
    /\ HeaderProcessed =>
          LET header == awaiting'.header IN
          /\ Len(NewEffects) >= 1
          /\ NewEffects[Len(NewEffects)] = Effect("store_write", header.id, header.round, "store")
          /\ PositionsOf(NewEffects, "vote_new") = {}
          /\ header.id \in DOMAIN store'
          /\ store'[header.id] = header
          /\ votes_created' = votes_created
    /\ GoesOnAfter(153) =>
          LET header == awaiting.header IN
          /\ header.id \in DOMAIN store
          /\ trace[Len(trace)] = Effect("store_write", header.id, header.round, "store")
          /\ NewEffects = <<Effect("vote_new", header.id, header.round, header.author)>>
          /\ Cardinality(PositionsOf(trace', "vote_new")) = 1
          /\ votes_created' = votes_created
                 \cup {[id |-> header.id, round |-> header.round, origin |-> header.author]}
          /\ awaiting'.at = 158
          /\ awaiting'.header = header
          /\ awaiting'.vote.id = header.id
          /\ store' = store
          /\ processing_vote_aggregators' = processing_vote_aggregators
    /\ GoesOnAfter(158) =>
          LET header == awaiting.header IN
          /\ votes_created' = votes_created
          /\ store' = store
          /\ IF header.author = Name
             THEN /\ PositionsOf(NewEffects, "send_Vote") = {}
                  /\ awaiting'.at # 173
                  /\ cancel_handlers' = cancel_handlers \/ awaiting' = NoWait
             ELSE /\ NewEffects = <<Effect("send_Vote", header.id, header.round,
                                           <<header.author>>)>>
                  /\ awaiting'.at = 173
                  /\ awaiting'.header = header
                  /\ processing_vote_aggregators' = processing_vote_aggregators
                  /\ processing_headers' = processing_headers
                  /\ cert_broadcasts' = cert_broadcasts
                  /\ cancel_handlers' = cancel_handlers
    /\ GoesOnAfter(173) =>
          LET round == awaiting.header.round
              author == awaiting.header.author
          IN /\ NewEffects = <<>>
             /\ trace[Len(trace)].op = "send_Vote"
             /\ Cardinality(PositionsOf(trace, "send_Vote")) = 1
             /\ awaiting' = NoWait
             /\ processing_vote_aggregators' = processing_vote_aggregators
             /\ processing_headers' = processing_headers
             /\ IF round >= gc_round'
                THEN /\ round \in DOMAIN cancel_handlers'
                     /\ cancel_handlers'[round]
                           = Append(Get(cancel_handlers, round, <<>>), author)
                ELSE round \notin DOMAIN cancel_handlers'

\* C28 (amended): after a header passes processing, Core stores it under its
\* id and then makes exactly one vote for it. For a header of this authority
\* the vote is given to the local processing of votes and is not sent over
\* the network; that processing may broadcast the certificate the vote
\* completes. For a header of a peer the vote is sent in one unicast to the
\* author of the header only, is not aggregated locally, and the handle of
\* the send is stored under the round of the header.
C28_VoteRoutedByAuthorship ==
    [][ VoteRouted ]_vars

\* C28 as claimed: for a header of this authority nothing at all is sent
\* over the network once the vote is made.
C28_NothingSentForOwnHeader ==
    [][ /\ VoteRouted
        /\ (GoesOnAfter(158) /\ awaiting.header.author = Name) =>
              \A i \in 1..Len(NewEffects) :
                  NewEffects[i].op \notin {"send_Vote", "broadcast_Header",
                                          "broadcast_Certificate"} ]_vars

\* The vote of this authority for its own header completed the quorum: it
\* was not sent, and the certificate was broadcast in the same event.
C28_Witness ==
    /\ last.kind = "OwnHeader"
    /\ last.result = "Ok"
    /\ \E v \in PositionsOf(trace, "vote_new") :
          /\ trace[v].to = Name
          /\ \E i \in PositionsOf(trace, "broadcast_Certificate") : i > v
    /\ PositionsOf(trace, "send_Vote") = {}

\* C29: for each header of the Proposer, Core registers the header and an
\* aggregator in the in-flight maps, then broadcasts the header once, to
\* every authority but itself, the handles stored under the round of the
\* header, and only then processes it: the store write and the own vote come
\* after the broadcast.
C29_OwnHeaderBroadcastFirst ==
    [][ LET to == others_primaries(committee, Name) IN
        /\ (events' = events + 1 /\ last'.kind = "OwnHeader") =>
              LET header == awaiting'.header IN
              /\ awaiting'.at = 130
              /\ header \in OwnHeaders
              /\ trace' = <<Effect("register", header.id, header.round, "in_flight"),
                            Effect("broadcast_Header", header.id, header.round, to)>>
              /\ { a \in Authorities : \E i \in 1..Len(to) : to[i] = a }
                     = Authorities \ {Name}
              /\ header.id \in DOMAIN processing_headers'
              /\ header.id \in DOMAIN processing_vote_aggregators'
              /\ store' = store
              /\ votes_created' = votes_created
        /\ GoesOnAfter(130) =>
              LET header == awaiting.header
                  before == Get(cancel_handlers, header.round, <<>>)
              IN /\ trace[Len(trace)] = Effect("broadcast_Header", header.id, header.round, to)
                 /\ header.round \in DOMAIN cancel_handlers'
                 /\ cancel_handlers'[header.round] = before \o to
                 /\ NewEffects = <<Effect("store_write", header.id, header.round, "store")>>
                 /\ awaiting'.at = 153
                 /\ awaiting'.header = header
                 /\ votes_created' = votes_created
        /\ (GoesOnAfter(153) /\ last.kind = "OwnHeader") =>
              LET header == awaiting.header
                  t == trace'
              IN /\ Len(t) = 4
                 /\ t[1].op = "register"
                 /\ PositionsOf(t, "broadcast_Header") = {2}
                 /\ t[3] = Effect("store_write", header.id, header.round, "store")
                 /\ t[4] = Effect("vote_new", header.id, header.round, Name)
                 /\ PositionsOf(t, "vote_new") = {4}
                 /\ header.id \in DOMAIN processing_headers'
                 /\ header.id \in DOMAIN processing_vote_aggregators'
        /\ last'.kind = "OwnHeader" =>
              /\ Cardinality(PositionsOf(trace', "broadcast_Header")) <= 1
              /\ Cardinality(PositionsOf(trace', "vote_new")) <= 1 ]_vars

\* An own header was registered, broadcast and voted for, and waits in the
\* in-flight maps for the votes of the peers.
C29_Witness ==
    /\ last.kind = "OwnHeader"
    /\ last.result = "Ok"
    /\ Len(trace) = 4
    /\ trace[1].id \in DOMAIN processing_headers
    /\ trace[1].id \in DOMAIN processing_vote_aggregators
    /\ trace[1].round \in DOMAIN cancel_handlers
    /\ Len(cancel_handlers[trace[1].round]) = Cardinality(Authorities) - 1
    /\ awaiting = NoWait

----------------------------------------------------------------------------
(* Claims about the aggregator after its certificate, and about the        *)
(* headers of the Proposer.                                                *)

\* C31: once the aggregator has emitted its certificate, an append of the
\* vote of a new authority returns Ok(None) without verifying the signature
\* (a vote that does not verify is accepted too) and leaves the bitmap and
\* the aggregate signature as they were; only used, votes and weight change,
\* whatever the stake added.
C31_NoWorkAfterCertificate ==
    (Len(aggCalls) > 0 /\ aggPre.is_qc_sent /\ LastCall.vote.author \notin aggPre.used) =>
        /\ LastCall.tag = "None"
        /\ agg.pk_bit_vec = aggPre.pk_bit_vec
        /\ agg.agg_sign = aggPre.agg_sign
        /\ agg.is_qc_sent
        /\ agg.used = aggPre.used \cup {LastCall.vote.author}
        /\ Len(agg.votes) = Len(aggPre.votes) + 1
        /\ agg.weight = aggPre.weight + stake(committee, LastCall.vote.author)

\* After the certificate two more authorities voted, the first with a
\* signature that does not verify, and the weight counter is at the
\* threshold again: no second certificate.
C31_Witness ==
    /\ Len(aggCalls) = 3
    /\ aggCalls[1].tag = "Some"
    /\ ~Vote_verify(aggCalls[2].vote, committee)
    /\ aggCalls[2].tag = "None"
    /\ aggCalls[3].tag = "None"
    /\ Cardinality(agg.used) = 3
    /\ agg.weight >= validity_threshold(committee)

\* C32: the round of the Proposer is 1 at the start and no operation of the
\* Proposer (a batch, the timer, a header made) changes it; every header
\* made or sent to Core carries that round and the name of this authority.
C32_ProposerRoundFixed ==
    /\ proposer_round = 1
    /\ \A i \in 1..Len(emitted) :
          /\ emitted[i].round = proposer_round
          /\ emitted[i].author = Name
    /\ \A i \in 1..Len(tx_core) :
          /\ tx_core[i].round = proposer_round
          /\ tx_core[i].author = Name
    /\ pending_header # NoHeader =>
          /\ pending_header.round = proposer_round
          /\ pending_header.author = Name

\* Two headers were sent, one after the other.
C32_Witness ==
    /\ Len(emitted) = 2
    /\ Len(batches) = 2
    /\ pc = "select"

\* The transactions of a sequence of batches (or of payloads), in order.
RECURSIVE Flatten(_)
Flatten(seqs) == IF seqs = <<>> THEN <<>> ELSE Head(seqs) \o Flatten(Tail(seqs))

EmittedPayloads == [i \in 1..Len(emitted) |-> emitted[i].payload]

\* C36 as stated: the payloads of the headers emitted so far, in order,
\* followed by the pending buffer, are the batches received so far, in order.
C36_EmittedThenBuffer ==
    Flatten(EmittedPayloads) \o txns = Flatten(batches)

\* C36: the payloads of the headers sent to Core so far, in order, followed
\* by the payload of the header make_header is sending, if any, followed by
\* the pending buffer, are the batches received so far, in order: nothing is
\* dropped, repeated or reordered, and nothing is in two headers. Once the
\* Proposer has panicked in the send, the payloads of the headers sent are
\* the first transactions received, and the buffer is empty.
C36_TransactionsConserved ==
    /\ pc # "dead" =>
          Flatten(EmittedPayloads) \o pending_header.payload \o txns = Flatten(batches)
    /\ pc = "dead" =>
          /\ txns = <<>>
          /\ Len(Flatten(EmittedPayloads)) <= Len(Flatten(batches))
          /\ Flatten(EmittedPayloads) = SubSeq(Flatten(batches), 1, Len(Flatten(EmittedPayloads)))

\* One header is in the channel to Core, which is full, and a second one
\* made of the second batch waits in the send.
C36_Witness ==
    /\ pc = "make_header"
    /\ core_full(tx_core)
    /\ Len(emitted) = 1
    /\ Len(batches) = 2
    /\ emitted[1].payload = batches[1]
    /\ pending_header.payload = batches[2]
    /\ batches[2] # <<>>
    /\ batches[1] # batches[2]

\* The first n batches received are all in the headers sent so far.
BatchesIncluded(n) ==
    Len(Flatten(EmittedPayloads)) >= Len(Flatten(SubSeq(batches, 1, n)))

\* C33: when the timer eventually fires and Core keeps taking the headers,
\* every batch received with transactions in it is eventually in a header
\* sent to Core, also when the pending size never reaches header_size.
C33_BatchEventuallyProposed ==
    \A n \in 1..MaxBatches :
        (Len(batches) >= n /\ batches[n] # <<>>) ~> (Len(batches) >= n /\ BatchesIncluded(n))

\* A header was sent on the timer with less than header_size pending, after
\* Core took the header before it, and nothing is left in the buffer.
C33_Witness ==
    /\ Len(emitted) = 2
    /\ tx_core = <<emitted[2]>>
    /\ emitted[2].payload # <<>>
    /\ SumLen(emitted[2].payload) < header_size
    /\ txns = <<>>
    /\ Len(batches) = MaxBatches

\* C35: what the comment on missing_payload documents: true when every
\* batch of the payload of the header is in the store, false (a request to
\* the waiter made) when some batch is not.
C35_TrueWhenPayloadAvailable ==
    [][ Returned =>
          /\ sync_last'.result = (PairsOf(sync_call.missing) = {})
          /\ ~sync_last'.result => Len(tx_header_waiter') = Len(tx_header_waiter) + 1 ]_vars

----------------------------------------------------------------------------
(* Claims about the in-flight maps and gc_round of Core.                   *)

\* C37: in every reachable state of Core the two in-flight maps have the
\* same keys, and each key is the id of the header stored under it.
C37_InFlightMapsAligned ==
    /\ DOMAIN processing_headers = DOMAIN processing_vote_aggregators
    /\ \A k \in DOMAIN processing_headers : processing_headers[k].id = k

\* An own header waits for votes: one entry in each map, the own vote in
\* its aggregator.
C37_Witness ==
    /\ Cardinality(DOMAIN processing_headers) = 1
    /\ \A k \in DOMAIN processing_vote_aggregators :
          processing_vote_aggregators[k].used = {Name}
    /\ alive

\* C38: only a header received from the Proposer enters the in-flight maps:
\* no header of a peer, loopback header, vote or certificate adds an entry;
\* so every certificate this Core assembles is for a header its own
\* Proposer delivered.
C38_OnlyOwnHeadersInFlight ==
    [][ /\ ( \/ ~(DOMAIN processing_headers' \subseteq DOMAIN processing_headers)
             \/ ~(DOMAIN processing_vote_aggregators'
                     \subseteq DOMAIN processing_vote_aggregators) ) =>
              /\ events' = events + 1
              /\ last'.kind = "OwnHeader"
        /\ \A k \in DOMAIN processing_headers' : processing_headers'[k] \in OwnHeaders
        /\ \A i \in PositionsOf(NewEffects, "broadcast_Certificate") :
              /\ NewEffects[i].to = others_primaries(committee, Name)
              /\ NewEffects[i].id \in DOMAIN processing_headers
              /\ processing_headers[NewEffects[i].id] \in OwnHeaders ]_vars

\* The header of a peer was processed (stored, voted for) while an own
\* header is in flight: it added nothing to the in-flight maps.
C38_Witness ==
    /\ last.kind \in {"Header", "LoopbackHeader"}
    /\ last.result = "Ok"
    /\ \E v \in PositionsOf(trace, "vote_new") :
          /\ trace[v].to # Name
          /\ trace[v].id \in DOMAIN store
          /\ trace[v].id \notin DOMAIN processing_headers
    /\ Cardinality(DOMAIN processing_headers) = 1

\* C39: gc_round is 0 at the start; as consensus_round never decreases,
\* gc_round never decreases, and it is 0 as long as consensus_round has not
\* exceeded gc_depth.
C39_GcRoundMonotone ==
    /\ gc_round = 0
    /\ [][ /\ consensus_round' >= consensus_round
           /\ gc_round' >= gc_round
           /\ consensus_round <= gc_depth => gc_round' = 0
           /\ gc_round' # gc_round => gc_round' = consensus_round - gc_depth ]_vars

\* The consensus layer reached round 3 and the cleanup that ended the last
\* of two events brought gc_round to 2.
C39_Witness ==
    /\ gc_round = 2
    /\ consensus_round = 3
    /\ events = 2
    /\ alive

\* C40: the cleanup leaves the in-flight maps alone: an entry leaves them
\* only in the event that assembles and broadcasts the certificate of its
\* header, so a header whose round fell below gc_round stays in flight
\* until its votes make the quorum.
C40_GcKeepsInFlight ==
    [][ /\ \A k \in (DOMAIN processing_headers \ DOMAIN processing_headers')
                    \cup (DOMAIN processing_vote_aggregators
                             \ DOMAIN processing_vote_aggregators') :
              /\ GoesOnAfter(206)
              /\ awaiting.certificate.id = k
              /\ \E i \in PositionsOf(trace, "broadcast_Certificate") : trace[i].id = k
        /\ \A k \in DOMAIN processing_headers \cap DOMAIN processing_headers' :
              processing_headers'[k] = processing_headers[k]
        /\ (events' = events /\ ~(awaiting # NoWait /\ GoesOnAfter(awaiting.at))) =>
              /\ processing_headers' = processing_headers
              /\ processing_vote_aggregators' = processing_vote_aggregators ]_vars

\* The cleanup dropped the handles of round 1 when gc_round became 2; the
\* own header of round 1 and its aggregator are still in flight.
C40_Witness ==
    /\ gc_round = 2
    /\ alive
    /\ \E k \in DOMAIN processing_headers :
          /\ processing_headers[k].round < gc_round
          /\ k \in DOMAIN processing_vote_aggregators
          /\ processing_headers[k].round \notin DOMAIN cancel_handlers

----------------------------------------------------------------------------
(* Claim about the certification of the own headers.                       *)

\* The authorities whose valid vote for the header reached the aggregator
\* of Core while the header was in flight: this authority (its own vote is
\* made when the header is processed) and the peers whose valid vote was
\* delivered.
ValidVoters(header) ==
    {Name} \cup { v.author : v \in { w \in delivered :
                                        /\ w.id = header.id
                                        /\ vote_matches(w, header)
                                        /\ Vote_verify(w, committee) } }

\* Core assembled the certificate of the header: it was broadcast and
\* written to the store, and the header left the in-flight maps.
Certified(header) ==
    /\ header.id \in DOMAIN cert_broadcasts
    /\ Certificate_digest([id |-> header.id, round |-> header.round,
                           origin |-> header.author]) \in DOMAIN store
    /\ header.id \notin DOMAIN processing_headers
    /\ header.id \notin DOMAIN processing_vote_aggregators

\* C34: once valid matching votes of distinct authorities, the own one
\* included, with a stake of at least the validity threshold have been
\* delivered for an own header in flight, and the dispatch loop has handled
\* them, Core has broadcast the certificate of the header, stored it and
\* offered it to the consensus layer, and the header has left the in-flight
\* maps.
C34_QuorumOfValidVotesCertifies ==
    (alive /\ blocked = NoCert /\ awaiting = NoWait) =>
        \A header \in OwnHeaders :
            ( /\ header.id \in DOMAIN store
              /\ SumStake(committee, ValidVoters(header)) >= validity_threshold(committee) )
                => Certified(header)

====
